---- MODULE Spec2Model ----
(***************************************************************************)
(* WMPS: charge orchestration and machine control (wmps/app/main.py).       *)
(*                                                                          *)
(* Money is carried in thousandths of a currency unit ("mills") wherever    *)
(* the code holds a Python float, and in hundredths ("cents") wherever the  *)
(* code has written the value through _num_to_text ("%.2f") into a CSV      *)
(* file.  num_to_text and read_float are the two conversions.               *)
(***************************************************************************)
EXTENDS Integers, Sequences, FiniteSets, TLC

\* ---------------------------------------------------------------- bounds
MaxPolls   == 2     \* iterations of the activation-confirm poll loop
MaxUpserts == 1     \* calls of /accounts/upsert in one behaviour
MaxMono    == 6     \* half seconds the monotonic clock runs

\* ------------------------------------------------------- program constants
PRICE_WASHING   == 5000   \* price_washing 5.0, in mills
PRICE_DRYER     == 5000   \* price_dryer 5.0, in mills
WASHING_MINUTES == 30
DRYER_MINUTES   == 60

\* ------------------------------------------------------------ input sets
Reqs      == {"http", "keypad"}    \* one request of each origin
Machines  == {1, 4, 5}             \* a washing machine and two dryers
NoMachine == 0                     \* the empty machine string
Accounts  == {"111111", "222222"}  \* tenants that have an account row
Tenants   == {"111111", "999999"}   \* codes that requests carry
NoTenant  == ""                    \* the empty tenant string
NoValue   == -1                    \* an optional request field that is None
NoTimer   == -1                    \* machine absent from ACTIVE_UNTIL
Free      == "free"                \* a lock nobody holds

TenantInputs  == Tenants \cup {NoTenant}
MachineInputs == Machines \cup {NoMachine}
PriceInputs   == {NoValue, 0, 2004}    \* None, 0.0, 2.004
MinuteInputs  == {NoValue}
UpsertTenants == {"111111"}
UpsertInputs  == {2000, 6000}          \* balances 2.00 and 6.00 posted to /accounts/upsert
TriState      == {"active", "inactive", "unknown"}   \* _adam_read_di: True, False, None
SensorStates  == {"on", "off", "unknown"}            \* state string of the HA sensor

VARIABLES
    opts,          \* /data/options.json
    accounts,      \* /data/accounts.csv : tenant_code -> balance text (cents)
    transactions,  \* /data/transactions.csv : sequence of rows
    txBy,          \* history: the request that appended each row
    ACTIVE_UNTIL,  \* soft-busy deadlines, machine -> minute or NoTimer
    globalLock,    \* holder of GLOBAL_LOCK
    machineLock,   \* holder of each machine_<id>.lock
    coil,          \* ADAM digital outputs, per machine
    switch,        \* HA switch entities, per machine
    req,           \* the charge requests (threads inside _handle_charge)
    upsert,        \* the /accounts/upsert request
    now,           \* time.time(), in minutes
    mono,          \* time.monotonic(), in half seconds
    session,       \* a KeypadSession: its policy and its runtime fields
    resp,          \* the dict the last KeypadSession.feed returned
    audit,         \* history: the keys fed to the session since it was made
    ksm,           \* the KeypadStateMachine (session controller)
    listing,       \* what the last GET /machines returned, and what it read
    adam,          \* an Adam6050 object (adam6050.py), seen for machine 1
    HAS_PYMODBUS,  \* whether the import of pymodbus succeeded
    call           \* the last call of an ADAM operation: what it met, what it returned

chargeVars == <<opts, accounts, transactions, txBy, ACTIVE_UNTIL, globalLock,
                machineLock, coil, switch, req, upsert, now>>

keypadVars == <<mono, session, resp, audit, ksm>>

statusVars == <<listing>>

deviceVars == <<adam, HAS_PYMODBUS, call>>

vars == <<chargeVars, keypadVars, statusVars, deviceVars>>

\* ------------------------------------------------------------ conversions
\* _num_to_text: "%.2f" of a float; the result is the number of cents.
num_to_text(v) ==
    LET a == IF v < 0 THEN -v ELSE v
        q == a \div 10
        r == a % 10
        c == IF r > 5 \/ (r = 5 /\ q % 2 = 1) THEN q + 1 ELSE q
    IN  IF v < 0 THEN -c ELSE c

\* float(text) of a CSV field written by num_to_text
read_float(c) == c * 10

\* read_accounts: tenant -> balance as a float (mills)
read_accounts == [t \in DOMAIN accounts |-> read_float(accounts[t])]

\* write_accounts: every balance goes through _num_to_text
write_accounts(accs) == [t \in DOMAIN accs |-> num_to_text(accs[t])]

\* append_transaction: the row written to transactions.csv
append_transaction(tenant, machine, amount, before, after, minutes, success) ==
    [tenant_code    |-> tenant,
     machine_number |-> machine,
     amount_charged |-> num_to_text(amount),
     balance_before |-> num_to_text(before),
     balance_after  |-> num_to_text(after),
     cycle_minutes  |-> minutes,
     success        |-> success]

\* ---------------------------------------------------------------- options
machine_category(machine) == IF machine \in {1, 2, 3} THEN "washing" ELSE "dryer"

default_minutes_for(machine) ==
    IF machine_category(machine) = "washing" THEN WASHING_MINUTES ELSE DRYER_MINUTES

price_for(machine, o) ==
    IF machine \in DOMAIN o.price_map THEN o.price_map[machine]
    ELSE IF machine_category(machine) = "washing" THEN PRICE_WASHING ELSE PRICE_DRYER

is_false(v) == v = "false"

\* an enabled test that ignores disabled_machines
machine_enabled_unlisted(mid, o) ==
    ~(o.override[mid] # "absent" /\ is_false(o.override[mid])) /\ ~is_false(o.flag[mid])

\* machine_enabled: any of the three sources can switch a machine off
machine_enabled(mid, o) ==
    IF o.override[mid] # "absent" /\ is_false(o.override[mid]) THEN FALSE
    ELSE IF is_false(o.flag[mid]) THEN FALSE
    ELSE IF mid \in o.disabled_machines THEN FALSE
    ELSE TRUE

\* _get_state: what the HA sensor read yields
get_state(o, ha) ==
    IF ~o.token THEN (IF o.simulate THEN "simulated" ELSE "unknown") ELSE ha

\* neither the input nor the sensor tells whether the machine runs
both_unknown(o, di, ha) ==
    (~o.adam \/ di = "unknown") /\ get_state(o, ha) \notin {"on", "off"}

\* an availability check that takes a machine nobody can see for free
machine_is_available_lenient(mid, o, di, ha) ==
    IF ~machine_enabled(mid, o) THEN [avail |-> FALSE, pop |-> FALSE, io |-> 0]
    ELSE IF o.adam /\ di = "active" THEN [avail |-> FALSE, pop |-> FALSE, io |-> 1]
    ELSE IF o.adam /\ di = "inactive" THEN [avail |-> TRUE, pop |-> TRUE, io |-> 1]
    ELSE IF get_state(o, ha) = "off" THEN [avail |-> TRUE, pop |-> TRUE, io |-> 1]
    ELSE IF get_state(o, ha) = "on" THEN [avail |-> FALSE, pop |-> FALSE, io |-> 1]
    ELSE [avail |-> TRUE, pop |-> FALSE, io |-> 1]

\* machine_is_available: di and ha are what the two reads return; pop tells
\* whether ACTIVE_UNTIL.pop(mid) is executed, io how many reads were made
machine_is_available(mid, o, di, ha) ==
    LET n == (IF o.adam THEN 1 ELSE 0)
        h == n + (IF o.token THEN 1 ELSE 0)
    IN
    IF ~machine_enabled(mid, o) THEN [avail |-> FALSE, pop |-> FALSE, io |-> 0]
    ELSE IF o.adam /\ di = "active" THEN [avail |-> FALSE, pop |-> FALSE, io |-> n]
    ELSE IF o.adam /\ di = "inactive" THEN [avail |-> TRUE, pop |-> TRUE, io |-> n]
    ELSE IF ~o.simulate /\ ~o.token THEN [avail |-> FALSE, pop |-> FALSE, io |-> n]
    ELSE IF get_state(o, ha) = "off" THEN [avail |-> TRUE, pop |-> TRUE, io |-> h]
    ELSE IF get_state(o, ha) = "on" THEN [avail |-> FALSE, pop |-> FALSE, io |-> h]
    ELSE [avail |-> o.simulate, pop |-> FALSE, io |-> h]

\* _soft_busy of GET /machines: the purchased time of mid has not run out
soft_busy(mid, until, t) == until[mid] # NoTimer /\ t < until[mid]

\* the decision logic of GET /machines for an enabled machine: di and ha are
\* what _adam_read_di and _get_state return, soft is _soft_busy(mid)
machines_status(o, di, ha, soft) ==
    LET di_val   == IF o.adam THEN di ELSE "unknown"
        ha_state == IF o.token THEN ha ELSE "none"
    IN
    IF o.do_mode = "hold" THEN
        IF di_val = "active" THEN [state |-> "on", busy_source |-> "di"]
        ELSE IF di_val = "inactive" THEN
            IF soft THEN [state |-> "on", busy_source |-> "timer"]
            ELSE IF ha_state \in {"on", "off"} THEN [state |-> ha_state, busy_source |-> "ha"]
            ELSE [state |-> "off", busy_source |-> "di"]
        ELSE IF ha_state \in {"on", "off"} THEN [state |-> ha_state, busy_source |-> "ha"]
        ELSE IF soft THEN [state |-> "on", busy_source |-> "timer"]
        ELSE [state |-> "unknown", busy_source |-> "none"]
    ELSE
        IF soft THEN [state |-> "on", busy_source |-> "timer"]
        ELSE IF di_val = "active" THEN [state |-> "on", busy_source |-> "di"]
        ELSE IF di_val = "inactive" THEN [state |-> "off", busy_source |-> "di"]
        ELSE IF ha_state \in {"on", "off"} THEN [state |-> ha_state, busy_source |-> "ha"]
        ELSE [state |-> "off", busy_source |-> "none"]

\* a listing that reads input and sensor before it looks at the enabled flag
machines_entry_reading_first(mid, o, di, ha, until, t) ==
    IF ~machine_enabled(mid, o)
    THEN [state |-> "disabled", busy_source |-> "unknown",
          di_read |-> o.adam, ha_read |-> o.token]
    ELSE LET st == machines_status(o, di, ha, soft_busy(mid, until, t)) IN
         [state |-> st.state, busy_source |-> st.busy_source,
          di_read |-> o.adam, ha_read |-> o.token]

\* one element of the list GET /machines returns; di_read and ha_read tell
\* whether _adam_read_di and _get_state were called for the machine (history)
machines_entry(mid, o, di, ha, until, t) ==
    IF ~machine_enabled(mid, o)
    THEN [state |-> "disabled", busy_source |-> "unknown",
          di_read |-> FALSE, ha_read |-> FALSE]
    ELSE LET st == machines_status(o, di, ha, soft_busy(mid, until, t)) IN
         [state |-> st.state, busy_source |-> st.busy_source,
          di_read |-> o.adam, ha_read |-> o.token]

\* no GET /machines has returned yet
NoListing == [n |-> 0, di |-> "unknown", ha |-> "unknown", out |-> <<>>]

\* ------------------------------------------------------------- actuation
\* a confirm loop that takes the activation as confirmed without a reading
confirm_loop_unread(polls) == TRUE

\* the confirm loop of operate_machine: true iff some poll reads active
confirm_loop(polls) == \E i \in DOMAIN polls : polls[i] = "active"

\* _adam_pulse: the coil after the pulse and the result
adam_pulse(c, on_ok, off_ok) ==
    IF ~on_ok THEN [ok |-> FALSE, coil |-> c, ons |-> 1, offs |-> 0]
    ELSE IF ~off_ok THEN [ok |-> FALSE, coil |-> TRUE, ons |-> 1, offs |-> 1]
    ELSE [ok |-> TRUE, coil |-> FALSE, ons |-> 1, offs |-> 1]

\* _adam_write_coil(r, True)
adam_write_on(c, on_ok) ==
    [ok |-> on_ok, coil |-> IF on_ok THEN TRUE ELSE c, ons |-> 1, offs |-> 0]

\* operate_machine.  It reads the options from disk (opts), not the options
\* of the request.  on_ok, off_ok, roll_ok: whether the on-write, the
\* off-write of a pulse and the rollback off-write get through; polls: what
\* the confirm loop reads.  c, s: the coil and the switch of the machine.
\* ons, offs count the output writes issued, exit names the return taken.
operate_machine(minutes, c, s, on_ok, off_ok, roll_ok, polls) ==
    LET none == [ok |-> FALSE, confirmed |-> FALSE, coil |-> c, switch |-> s,
                 ons |-> 0, offs |-> 0, timers |-> 0, exit |-> "no_token"]
    IN
    IF opts.simulate THEN [none EXCEPT !.ok = TRUE, !.confirmed = TRUE,
                                       !.exit = "simulated"]
    ELSE IF opts.adam THEN
        LET w == IF opts.do_mode = "pulse" THEN adam_pulse(c, on_ok, off_ok)
                 ELSE adam_write_on(c, on_ok)
            a == [none EXCEPT !.coil = w.coil, !.ons = w.ons, !.offs = w.offs]
        IN  IF ~w.ok THEN [a EXCEPT !.exit = "write_failed"]
            ELSE IF ~confirm_loop(polls) THEN
                IF opts.do_mode = "hold"
                THEN [a EXCEPT !.coil = IF roll_ok THEN FALSE ELSE a.coil,
                               !.offs = a.offs + 1, !.exit = "unconfirmed"]
                ELSE [a EXCEPT !.exit = "unconfirmed"]
            ELSE [a EXCEPT !.ok = TRUE, !.confirmed = TRUE, !.exit = "confirmed",
                           !.timers = IF opts.do_mode = "hold" /\ minutes > 0
                                      THEN 1 ELSE 0]
    ELSE IF ~opts.token THEN none
    ELSE IF ~on_ok THEN [none EXCEPT !.ons = 1, !.exit = "write_failed"]
    ELSE IF ~confirm_loop(polls) THEN
        [none EXCEPT !.ons = 1, !.offs = 1, !.exit = "unconfirmed",
                     !.switch = IF roll_ok THEN FALSE ELSE TRUE]
    ELSE [none EXCEPT !.ok = TRUE, !.confirmed = TRUE, !.ons = 1,
                      !.switch = TRUE, !.exit = "confirmed",
                      !.timers = IF minutes > 0 THEN 1 ELSE 0]

\* ------------------------------------------------------------- ADAM-6050
\* the largest retries argument an Adam6050 is constructed with
MaxRetries == 2
RetryInputs == 0 .. MaxRetries

\* Adam6050.__init__, for machine 1: retries is max(1, int(retries)), the
\* mock input of the machine is not active
Adam6050(enabled, invert_di_global, retries) ==
    [enabled |-> enabled, invert_di_global |-> invert_di_global,
     retries |-> IF retries > 1 THEN retries ELSE 1,
     mock_active |-> FALSE]

\* how one attempt on a Modbus session can end: client.connect() returns
\* false, the reply is an error (isError(), or no isError at all), the
\* request raises, or the request gets through
ConnectFailures == {"connect_failed"}
WriteAttempts == {"ok", "error_reply", "exception"} \cup ConnectFailures
PulseAttempts ==
    {"ok", "on_error", "on_exception", "off_error", "off_exception"} \cup ConnectFailures
ReadAttempts == {"raw_on", "raw_off", "error_reply", "exception"} \cup ConnectFailures

\* a retry loop that makes every attempt, also after one that got through
write_coil_every_attempt(a, c, state, outs, attempt) ==
    LET got == \E k \in attempt .. a.retries : outs[k] = "ok" IN
    [ok |-> got, coil |-> IF got THEN state ELSE c, attempts |-> a.retries,
     sessions |-> a.retries]

\* the loop of Adam6050._write_coil from attempt on: every attempt opens its
\* own ModbusTcpClient; the first write that gets through returns True
RECURSIVE write_coil_from(_, _, _, _, _)
write_coil_from(a, c, state, outs, attempt) ==
    IF attempt > a.retries
    THEN [ok |-> FALSE, coil |-> c, attempts |-> attempt - 1, sessions |-> attempt - 1]
    ELSE IF outs[attempt] = "ok"
    THEN [ok |-> TRUE, coil |-> state, attempts |-> attempt, sessions |-> attempt]
    ELSE write_coil_from(a, c, state, outs, attempt + 1)

\* Adam6050._write_coil
write_coil(a, has, c, state, outs) ==
    IF ~has THEN [ok |-> TRUE, coil |-> c, attempts |-> 0, sessions |-> 0]
    ELSE write_coil_from(a, c, state, outs, 1)

\* Adam6050.set_on and set_off: the mock keeps the machine in _mock_active
set_coil(a, has, c, state, outs) ==
    IF ~a.enabled
    THEN [ok |-> TRUE, coil |-> c, attempts |-> 0, sessions |-> 0, mock_active |-> state]
    ELSE IF ~has
    THEN [ok |-> TRUE, coil |-> c, attempts |-> 0, sessions |-> 0,
          mock_active |-> a.mock_active]
    ELSE LET w == write_coil(a, has, c, state, outs) IN
         [ok |-> w.ok, coil |-> w.coil, attempts |-> w.attempts,
          sessions |-> w.sessions, mock_active |-> a.mock_active]

set_on(a, has, c, outs) == set_coil(a, has, c, TRUE, outs)
set_off(a, has, c, outs) == set_coil(a, has, c, FALSE, outs)

\* the loop of Adam6050.pulse_relay from attempt on: one session per attempt,
\* on it the ON write, the delay and the OFF write; a failed OFF write leaves
\* the coil as the ON write set it and the loop goes to the next attempt
RECURSIVE pulse_from(_, _, _, _)
pulse_from(a, c, outs, attempt) ==
    IF attempt > a.retries
    THEN [ok |-> FALSE, coil |-> c, attempts |-> attempt - 1, sessions |-> attempt - 1]
    ELSE IF outs[attempt] = "ok"
    THEN [ok |-> TRUE, coil |-> FALSE, attempts |-> attempt, sessions |-> attempt]
    ELSE IF outs[attempt] \in {"off_error", "off_exception"}
    THEN pulse_from(a, TRUE, outs, attempt + 1)
    ELSE pulse_from(a, c, outs, attempt + 1)

\* Adam6050.pulse_relay: the mock marks the input active
\* (mock_confirm_after_pulse) and returns True, a missing pymodbus returns True
pulse_relay(a, has, c, outs) ==
    IF ~a.enabled
    THEN [ok |-> TRUE, coil |-> c, attempts |-> 0, sessions |-> 0, mock_active |-> TRUE]
    ELSE IF ~has
    THEN [ok |-> TRUE, coil |-> c, attempts |-> 0, sessions |-> 0,
          mock_active |-> a.mock_active]
    ELSE LET w == pulse_from(a, c, outs, 1) IN
         [ok |-> w.ok, coil |-> w.coil, attempts |-> w.attempts,
          sessions |-> w.sessions, mock_active |-> a.mock_active]

\* (not raw) if inv else raw
inverted(raw, inv) == IF inv THEN ~raw ELSE raw

\* True and False of an input read
active_of(b) == IF b THEN "active" ELSE "inactive"

\* the loop of Adam6050.is_machine_active from attempt on; after the last
\* attempt the method returns False
RECURSIVE read_from(_, _, _, _)
read_from(a, inv, outs, attempt) ==
    IF attempt > a.retries
    THEN [state |-> active_of(FALSE), attempts |-> attempt - 1, sessions |-> attempt - 1]
    ELSE IF outs[attempt] \in {"raw_on", "raw_off"}
    THEN [state |-> active_of(inverted(outs[attempt] = "raw_on", inv)),
          attempts |-> attempt, sessions |-> attempt]
    ELSE read_from(a, inv, outs, attempt + 1)

\* Adam6050.is_machine_active(machine, invert=invert): invert is "none" or a
\* boolean that overrides invert_di_global
is_machine_active(a, has, invert, outs) ==
    LET inv == IF invert = "none" THEN a.invert_di_global ELSE invert = "true" IN
    IF ~a.enabled
    THEN [state |-> active_of(inverted(a.mock_active, inv)), attempts |-> 0, sessions |-> 0]
    ELSE IF ~has
    THEN [state |-> active_of(FALSE), attempts |-> 0, sessions |-> 0]
    ELSE read_from(a, inv, outs, 1)

\* _adam_read_di of main.py: one attempt on one session, None on every failure
adam_read_di(o, has, out) ==
    IF ~has \/ ~o.adam THEN [state |-> "unknown", attempts |-> 0, sessions |-> 0]
    ELSE IF out \in {"raw_on", "raw_off"}
    THEN [state |-> active_of(inverted(out = "raw_on", o.invert_di)),
          attempts |-> 1, sessions |-> 1]
    ELSE [state |-> "unknown", attempts |-> 1, sessions |-> 1]

\* _adam_write_coil of main.py: one attempt on one session
adam_write_coil(o, has, c, state, out) ==
    IF ~has \/ ~o.adam THEN [ok |-> FALSE, coil |-> c, attempts |-> 0, sessions |-> 0]
    ELSE [ok |-> out = "ok", coil |-> IF out = "ok" THEN state ELSE c,
          attempts |-> 1, sessions |-> 1]

\* no ADAM operation has been called yet
NoCall ==
    [n |-> 0, op |-> "none", ok |-> FALSE, state |-> "none", attempts |-> 0,
     sessions |-> 0, outs |-> <<>>, inv |-> FALSE]

\* ---------------------------------------------------------- KeypadSession
\* the keys a session is fed: two digits, confirm, clear, backspace, a
\* character that is none of them, and a string that is not one character
KeyDigits == {"1", "7"}
CONFIRM_KEY == "#"
CLEAR_KEY == "*"
BACKSPACE_KEY == "B"
Keys == KeyDigits \cup {CONFIRM_KEY, CLEAR_KEY, BACKSPACE_KEY, "x", ""}

\* SecurityPolicy values, in seconds; the session's times are in half seconds
Policies ==
    { [code_entry_timeout_s |-> 1, max_failed_attempts |-> mf, lockout_seconds |-> ls,
       code_length |-> cl, require_confirm |-> rc] :
      mf \in {1, 2}, ls \in {0, 1, 2}, cl \in {1, 2}, rc \in BOOLEAN }

DefaultPolicy ==
    [code_entry_timeout_s |-> 1, max_failed_attempts |-> 2, lockout_seconds |-> 1,
     code_length |-> 2, require_confirm |-> TRUE]

\* verify_fn: the codes the verifier accepts
verify_fn(code) == code \in {<<"1">>, <<"1", "1">>}

\* the dataclass defaults of KeypadSession
NewSession(policy) ==
    [policy |-> policy, buffer |-> <<>>, last_key_ts |-> 0, failed_attempts |-> 0,
     lockout_until |-> 0]

\* int(round(x)) of a number of half seconds x / 2: Python rounds half to even
round_seconds(d) ==
    LET q == d \div 2 IN
    IF d % 2 = 0 THEN q ELSE IF q % 2 = 0 THEN q ELSE q + 1

\* an is_locked that never reports a lockout
is_locked_never(s, t) == FALSE

is_locked(s, t) == t < s.lockout_until

remaining_lockout(s, t) ==
    IF ~is_locked(s, t) THEN 0
    ELSE LET r == round_seconds(s.lockout_until - t) IN IF r > 0 THEN r ELSE 0

\* a lockout that keeps the failure counter
enter_lockout_keeping_count(s, t) ==
    [s EXCEPT !.lockout_until =
                  t + 2 * (IF s.policy.lockout_seconds > 1 THEN s.policy.lockout_seconds ELSE 1),
              !.buffer = <<>>]

enter_lockout(s, t) ==
    [s EXCEPT !.lockout_until =
                  t + 2 * (IF s.policy.lockout_seconds > 1 THEN s.policy.lockout_seconds ELSE 1),
              !.failed_attempts = 0,
              !.buffer = <<>>]

\* the test of _apply_interkey_timeout
interkey_expired(s, t) ==
    s.buffer # <<>> /\ (t - s.last_key_ts) > 2 * s.policy.code_entry_timeout_s

\* an inter-key timeout that never clears
apply_interkey_timeout_never(s, t) == s

apply_interkey_timeout(s, t) ==
    IF interkey_expired(s, t) THEN [s EXCEPT !.buffer = <<>>] ELSE s

\* what feed returns and leaves: the session, the status and the event of the
\* response, how often the verifier was called and with which code
Outcome(s, status, event, calls, code) ==
    [s |-> s, status |-> status, event |-> event, calls |-> calls, code |-> code]

validate(s, code, t) ==
    LET event == IF s.policy.require_confirm THEN "confirm" ELSE "digit" IN
    IF verify_fn(code)
    THEN Outcome([s EXCEPT !.failed_attempts = 0], "accepted", event, 1, code)
    ELSE LET f == [s EXCEPT !.failed_attempts = @ + 1] IN
         IF f.failed_attempts >= s.policy.max_failed_attempts
         THEN Outcome(enter_lockout(f, t), "locked", event, 1, code)
         ELSE Outcome(f, "rejected", event, 1, code)

\* a confirm that validates whatever the buffer holds
on_confirm_any_length(s, t) ==
    IF s.buffer = <<>> THEN Outcome(s, "incomplete", "confirm", 0, <<>>)
    ELSE validate([s EXCEPT !.buffer = <<>>, !.last_key_ts = t], s.buffer, t)

on_confirm(s, t) ==
    IF s.buffer = <<>> THEN Outcome(s, "incomplete", "confirm", 0, <<>>)
    ELSE IF Len(s.buffer) # s.policy.code_length
    THEN Outcome(s, "incomplete", "confirm", 0, <<>>)
    ELSE validate([s EXCEPT !.buffer = <<>>, !.last_key_ts = t], s.buffer, t)

\* a digit that is appended whatever the buffer holds
push_digit_uncapped(buffer, ch, code_length) == Append(buffer, ch)

\* lines 111-112: the digit is appended unless the buffer is full
push_digit(buffer, ch, code_length) ==
    IF Len(buffer) < code_length THEN Append(buffer, ch) ELSE buffer

\* feed for a session that is not locked (lines 90-130)
feed_unlocked(s0, ch, t) ==
    IF ch = "" THEN Outcome(s0, "rejected", "invalid", 0, <<>>)
    ELSE
    LET s == apply_interkey_timeout(s0, t) IN
    IF ch = CLEAR_KEY THEN Outcome([s EXCEPT !.buffer = <<>>], "cleared", "clear", 0, <<>>)
    ELSE IF ch = BACKSPACE_KEY THEN
        Outcome([s EXCEPT !.buffer = IF s.buffer # <<>>
                                     THEN SubSeq(s.buffer, 1, Len(s.buffer) - 1)
                                     ELSE <<>>,
                          !.last_key_ts = t],
                "collecting", "backspace", 0, <<>>)
    ELSE IF ch = CONFIRM_KEY THEN on_confirm(s, t)
    ELSE IF ch \in KeyDigits THEN
        LET d == [s EXCEPT !.buffer = push_digit(s.buffer, ch, s.policy.code_length),
                           !.last_key_ts = t]
        IN  IF s.policy.require_confirm THEN Outcome(d, "collecting", "digit", 0, <<>>)
            ELSE IF Len(d.buffer) < s.policy.code_length
            THEN Outcome(d, "collecting", "digit", 0, <<>>)
            ELSE validate([d EXCEPT !.buffer = <<>>], d.buffer, t)
    ELSE Outcome(s, "rejected", "invalid", 0, <<>>)

\* a feed that handles the key although the session is locked
feed_ignoring_lockout(s, ch, t) == feed_unlocked(s, ch, t)

\* KeypadSession.feed at time t
feed_outcome(s, ch, t) ==
    IF is_locked(s, t) THEN Outcome(s, "locked", "invalid", 0, <<>>)
    ELSE feed_unlocked(s, ch, t)

\* _resp: the response dict, and with it the key that was fed, the calls of
\* the verifier and what the feed met (history); n tells one response from
\* the next
response(out, ch, t, expired, full) ==
    [status |-> out.status, event |-> out.event, buffer |-> out.s.buffer,
     failed_attempts |-> out.s.failed_attempts,
     remaining_lockout_s |-> remaining_lockout(out.s, t),
     key |-> ch, calls |-> out.calls, code |-> out.code,
     expired |-> expired, full |-> full, n |-> 0]

\* no feed has returned yet
NoResp ==
    [status |-> "", event |-> "", buffer |-> <<>>, failed_attempts |-> 0,
     remaining_lockout_s |-> 0, key |-> "", calls |-> 0, code |-> <<>>,
     expired |-> FALSE, full |-> FALSE, n |-> 0]

\* history of the keys fed since the session was made: while only digits and
\* confirm keys have been fed (pure), how many digits, how many verifier
\* calls, and whether an inter-key timeout has cleared the buffer; streak
\* counts the rejected validations since the last accept or lockout
\* reset_locked: the last call was a reset made during a lockout
NewAudit ==
    [pure |-> TRUE, digs |-> 0, calls |-> 0, gap |-> FALSE, streak |-> 0,
     reset_locked |-> FALSE]

audit_after(a, s, ch, out, expired) ==
    LET streak == IF out.calls = 0 THEN a.streak
                  ELSE IF verify_fn(out.code) \/ out.status = "locked" THEN 0
                  ELSE a.streak + 1
        digs   == IF ch \in KeyDigits THEN a.digs + 1 ELSE a.digs
    IN  IF ~a.pure \/ ch \notin KeyDigits \cup {CONFIRM_KEY} \/ digs > s.policy.code_length
        THEN [pure |-> FALSE, digs |-> 0, calls |-> 0, gap |-> FALSE, streak |-> streak,
              reset_locked |-> FALSE]
        ELSE [pure |-> TRUE, digs |-> digs, calls |-> a.calls + out.calls,
              gap |-> a.gap \/ expired, streak |-> streak, reset_locked |-> FALSE]

\* ----------------------------------------------------- KeypadStateMachine
CODE_DIGITS == 6            \* the length of a tenant code on the keypad
controller_timeout_s == 1   \* options.security.code_entry_timeout_s
Symbols == KeyDigits \cup {"ENTER", "CANCEL", "x"}

\* the ways a call of handle_charge_fn ends: its return, an HTTPException
\* with one of the status codes of _handle_charge, any other exception
ChargeOutcomes == {"return", "400", "402", "404", "409", "423", "500", "exception"}

\* KeypadStateMachine.__init__; the other fields are history: the calls of
\* handle_charge_fn the last on_sym made, its symbol, the state it found, how
\* the call ended, the last phrase given to speak; n tells one on_sym from
\* the next
NewController ==
    [state |-> "IDLE", buf_code |-> "", sel_machine |-> NoMachine, last_input |-> 0,
     charges |-> 0, sym |-> "", from |-> "", outcome |-> "", spoken |-> "", n |-> 0]

\* ------------------------------------------------------------------ state
IdleReq ==
    [pc |-> "idle", tenant |-> NoTenant, machine |-> NoMachine, p |-> 0, m |-> 0,
     simulate |-> FALSE, ok |-> FALSE, confirmed |-> FALSE,
     bal_pre |-> 0, bal_before |-> 0, bal_after |-> 0, result |-> "",
     operated |-> FALSE, ons |-> 0, offs |-> 0, timers |-> 0,
     armed |-> FALSE, exit |-> "", seen |-> FALSE, overlap |-> FALSE,
     blind |-> FALSE, tts |-> ""]

\* machine 5 is listed in disabled_machines, nothing else is switched off
EnabledSources ==
    { [override |-> [x \in Machines |-> "absent"],
       flag |-> [x \in Machines |-> "absent"],
       disabled_machines |-> {5}] }

InitOptions ==
    { [simulate |-> sim, do_mode |-> mode, adam |-> ad, token |-> tok,
       price_map |-> (1 :> 5000),
       override |-> e.override, flag |-> e.flag,
       disabled_machines |-> e.disabled_machines] :
      sim \in BOOLEAN, mode \in {"pulse", "hold"}, ad \in BOOLEAN,
      tok \in BOOLEAN, e \in EnabledSources }

\* accounts.csv at start: 8.00 and 3.00
StartingBalance == ("111111" :> 800) @@ ("222222" :> 300)

\* the files, locks, outputs and requests of the charge flow at start
InitCharge ==
    /\ accounts = StartingBalance
    /\ transactions = <<>>
    /\ txBy = <<>>
    /\ ACTIVE_UNTIL = [x \in Machines |-> NoTimer]
    /\ globalLock = Free
    /\ machineLock = [x \in Machines |-> Free]
    /\ coil = [x \in Machines |-> FALSE]
    /\ switch = [x \in Machines |-> FALSE]
    /\ req = [r \in Reqs |-> IdleReq]
    /\ upsert = [pc |-> "idle", tenant |-> NoTenant, balance |-> 0, count |-> 0]
    /\ now = 0

\* the keypad objects as their constructors leave them
InitKeypad(policy) ==
    /\ mono = 0
    /\ session = NewSession(policy)
    /\ resp = NoResp
    /\ audit = NewAudit
    /\ ksm = NewController

InitStatus == listing = NoListing

\* the ADAM objects where no ADAM operation is called: an Adam6050 with the
\* defaults of its constructor, pymodbus imported
InitDevice ==
    /\ adam = Adam6050(TRUE, FALSE, 1)
    /\ HAS_PYMODBUS = TRUE
    /\ call = NoCall

Init ==
    /\ opts \in InitOptions
    /\ InitCharge
    /\ InitKeypad(DefaultPolicy)
    /\ InitStatus
    /\ InitDevice

\* a request leaves _handle_charge, by an exception or by its return: its
\* locals are gone; what remains is the code it ended with, the machine it
\* was turned away from at the gates (mach; for a disabled machine the tenant
\* as well), and the history of what it did to the outputs
Leave(r, mach, result) ==
    [req EXCEPT ![r] = [IdleReq EXCEPT !.pc = "done", !.result = result,
                                       !.machine = mach,
                                       !.overlap = req[r].overlap,
                                       !.seen = req[r].seen,
                                       !.operated = req[r].operated,
                                       !.ons = req[r].ons, !.offs = req[r].offs,
                                       !.timers = req[r].timers,
                                       !.armed = req[r].armed,
                                       !.exit = req[r].exit]]

\* a speak whose failed TTS call ends the caller
speak_raising(o, tts_ok) == [called |-> o.token, raised |-> o.token /\ ~tts_ok]

\* speak (lines 376-410): without a token it returns at once; the tts.speak
\* call and the fallback call are each inside try/except Exception, so speak
\* returns whether the calls succeed (tts_ok) or fail
speak(o, tts_ok) == [called |-> o.token, raised |-> FALSE]

\* what the TTS calls of one speak can do
TTSOutcomes(o) == IF o.token THEN BOOLEAN ELSE {TRUE}

\* a request speaks and leaves; tts records a TTS call that failed (history)
SpeakLeave(r, mach, result, tts_ok) ==
    IF speak(opts, tts_ok).raised THEN Leave(r, NoMachine, "Exception")
    ELSE [Leave(r, mach, result) EXCEPT
              ![r].tts = IF speak(opts, tts_ok).called /\ ~tts_ok THEN "failed" ELSE ""]

\* the requests that are inside _handle_charge
InFlight == {x \in Reqs : req[x].pc \notin {"idle", "done"}}

\* the options a request works with: simulate_charge forces simulate
request_opts(r) == [opts EXCEPT !.simulate = req[r].simulate]

\* leaving the block with the machine lock still held
release_machine_never(r) == machineLock

\* leaving the "with file_lock(_machine_lock_path(machine))" block
release_machine(r) == [x \in Machines |-> IF machineLock[x] = r THEN Free ELSE machineLock[x]]

\* a lock that is granted whoever holds it
lock_free_always(holder) == TRUE

\* file_lock: flock(LOCK_EX | LOCK_NB) succeeds
lock_free(holder) == holder = Free

\* a balance test that lets every balance pass
insufficient_funds_never(bal, p) == FALSE

\* the balance test of lines 741 and 800
insufficient_funds(bal, p) == bal < p

\* an activation gate that lets every activation pass
activation_failed_never(ok, simulate) == FALSE

\* the gate of line 757
activation_failed(ok, simulate) == ~ok /\ ~simulate

\* a commit that works with the balance of the pre-check
commit_balance_stale(accs, t, bal_pre) == bal_pre

\* the balance the commit works with (line 799): the one just read
commit_balance(accs, t, bal_pre) == accs[t]

\* --------------------------------------------------------- _handle_charge
\* lines 717-733: input validation, enabled, availability, price and minutes
handle_charge_begin(r, t, mach, price, minutes, forced, di, ha) ==
    /\ req[r].pc = "idle"
    /\ LET o == [opts EXCEPT !.simulate = opts.simulate \/ forced] IN
       IF t = NoTenant \/ mach = NoMachine THEN
           /\ req' = Leave(r, NoMachine, "INVALID_INPUT")
           /\ UNCHANGED ACTIVE_UNTIL
       ELSE IF ~machine_enabled(mach, o) THEN
           /\ \E tts_ok \in TTSOutcomes(opts) :
                 req' = [SpeakLeave(r, mach, "MACHINE_DISABLED", tts_ok)
                             EXCEPT ![r].tenant = t]
           /\ UNCHANGED ACTIVE_UNTIL
       ELSE
           LET av == machine_is_available(mach, o, di, ha)
               p  == IF price # NoValue THEN price ELSE price_for(mach, o)
               m  == IF minutes # NoValue THEN minutes ELSE default_minutes_for(mach)
           IN
           /\ ACTIVE_UNTIL' = IF av.pop THEN [ACTIVE_UNTIL EXCEPT ![mach] = NoTimer]
                              ELSE ACTIVE_UNTIL
           /\ \E tts_ok \in (IF av.avail THEN {TRUE} ELSE TTSOutcomes(opts)) :
              req' = IF ~av.avail THEN SpeakLeave(r, mach, "MACHINE_BUSY", tts_ok)
                     ELSE IF p <= 0 THEN Leave(r, mach, "PRICE_NOT_DEFINED")
                     ELSE [req EXCEPT ![r].pc = "precheck_wait", ![r].tenant = t,
                                      ![r].overlap = InFlight # {},
                                      ![r].machine = mach, ![r].simulate = o.simulate,
                                      ![r].blind = both_unknown(o, di, ha),
                                      ![r].p = p, ![r].m = m]
    /\ UNCHANGED <<opts, accounts, transactions, txBy, globalLock, machineLock,
                   coil, switch, upsert, now>>

\* file_lock(GLOBAL_LOCK) raises TimeoutError; the exception leaves
\* _handle_charge and unwinds the machine lock if it is held
global_lock_timeout(r) ==
    /\ req[r].pc \in {"precheck_wait", "failtx_wait", "commit_wait"}
    /\ ~lock_free(globalLock)
    /\ req' = Leave(r, NoMachine, "TimeoutError")
    /\ machineLock' = release_machine(r)
    /\ UNCHANGED <<opts, accounts, transactions, txBy, ACTIVE_UNTIL, globalLock,
                   coil, switch, upsert, now>>

\* lines 736-744: the global lock is entered and the balance is pre-checked
handle_charge_precheck(r) ==
    /\ req[r].pc = "precheck_wait"
    /\ lock_free(globalLock)
    /\ LET accs == read_accounts
           t    == req[r].tenant
       IN
       IF t \notin DOMAIN accs THEN
           /\ req' = Leave(r, NoMachine, "TENANT_NOT_FOUND")
           /\ UNCHANGED <<transactions, txBy>>
       ELSE IF insufficient_funds(accs[t], req[r].p) THEN
           \E tts_ok \in TTSOutcomes(opts) :
              IF speak(opts, tts_ok).raised
              THEN /\ req' = SpeakLeave(r, NoMachine, "INSUFFICIENT_FUNDS", tts_ok)
                   /\ UNCHANGED <<transactions, txBy>>
              ELSE /\ transactions' = Append(transactions,
                          append_transaction(t, req[r].machine, 0, accs[t], accs[t],
                                             req[r].m, FALSE))
                   /\ txBy' = Append(txBy, r)
                   /\ req' = SpeakLeave(r, NoMachine, "INSUFFICIENT_FUNDS", tts_ok)
       ELSE
           /\ req' = [req EXCEPT ![r].pc = "machine_wait", ![r].bal_pre = accs[t],
                                 ![r].bal_before = accs[t], ![r].blind = FALSE]
           /\ UNCHANGED <<transactions, txBy>>
    /\ UNCHANGED <<opts, accounts, ACTIVE_UNTIL, globalLock, machineLock, coil,
                   switch, upsert, now>>

\* line 749: file_lock raises TimeoutError for the machine lock
machine_lock_timeout(r) ==
    /\ req[r].pc = "machine_wait"
    /\ ~lock_free(machineLock[req[r].machine])
    /\ req' = Leave(r, NoMachine, "TimeoutError")
    /\ UNCHANGED <<opts, accounts, transactions, txBy, ACTIVE_UNTIL, globalLock,
                   machineLock, coil, switch, upsert, now>>

\* lines 749-752: the machine lock is entered and availability is checked
\* again under it; a busy machine leaves the lock at once
handle_charge_recheck(r, di, ha) ==
    /\ req[r].pc = "machine_wait"
    /\ lock_free(machineLock[req[r].machine])
    /\ LET mach == req[r].machine
           av   == machine_is_available(mach, request_opts(r), di, ha)
       IN
       /\ ACTIVE_UNTIL' = IF av.pop THEN [ACTIVE_UNTIL EXCEPT ![mach] = NoTimer]
                          ELSE ACTIVE_UNTIL
       /\ IF av.avail
          THEN /\ req' = [req EXCEPT ![r].pc = "operate",
                                      ![r].blind = both_unknown(request_opts(r), di, ha)]
               /\ machineLock' = [machineLock EXCEPT ![mach] = r]
          ELSE /\ \E tts_ok \in TTSOutcomes(opts) :
                     req' = SpeakLeave(r, NoMachine, "MACHINE_BUSY", tts_ok)
               /\ UNCHANGED machineLock
    /\ UNCHANGED <<opts, accounts, transactions, txBy, globalLock, coil, switch,
                   upsert, now>>

\* lines 754-782: operate_machine, the activation gate, the soft-busy timer
\* and the auto-release of the HA path
handle_charge_operate(r, on_ok, off_ok, roll_ok, polls) ==
    /\ req[r].pc = "operate"
    /\ LET mach == req[r].machine
           o    == request_opts(r)
           act  == operate_machine(req[r].m, coil[mach], switch[mach],
                                   on_ok, off_ok, roll_ok, polls)
           done == [req[r] EXCEPT !.ok = act.ok, !.confirmed = act.confirmed,
                                  !.operated = TRUE, !.ons = act.ons, !.blind = FALSE,
                                  !.offs = act.offs, !.exit = act.exit,
                                  !.seen = act.exit \in {"confirmed", "unconfirmed"}
                                           /\ \E i \in DOMAIN polls : polls[i] = "active",
                                  !.timers = act.timers]
       IN
       /\ coil' = [coil EXCEPT ![mach] = act.coil]
       /\ switch' = [switch EXCEPT ![mach] = act.switch]
       /\ IF activation_failed(act.ok, o.simulate) THEN
              /\ req' = [req EXCEPT ![r] = [done EXCEPT !.pc = "failtx_wait"]]
              /\ UNCHANGED ACTIVE_UNTIL
          ELSE IF req[r].m * 60 > 0 THEN
              /\ ACTIVE_UNTIL' = [ACTIVE_UNTIL EXCEPT
                                     ![mach] = now + req[r].m]
              /\ req' = [req EXCEPT ![r] =
                     [done EXCEPT !.pc = "commit_wait", !.armed = TRUE,
                                  !.timers = act.timers +
                                      (IF o.do_mode = "hold" /\ ~o.adam THEN 1 ELSE 0)]]
          ELSE
              /\ req' = [req EXCEPT ![r] = [done EXCEPT !.pc = "commit_wait"]]
              /\ UNCHANGED ACTIVE_UNTIL
    /\ UNCHANGED <<opts, accounts, transactions, txBy, globalLock, machineLock,
                   upsert, now>>

\* a failure path that takes the price although the activation failed
handle_charge_failtx_debit(r) ==
    /\ req[r].pc = "failtx_wait"
    /\ lock_free(globalLock)
    /\ req[r].tenant \in DOMAIN accounts
    /\ accounts' = write_accounts([read_accounts EXCEPT
                        ![req[r].tenant] = @ - req[r].p])
    /\ machineLock' = release_machine(r)
    /\ req' = Leave(r, NoMachine, "ACTIVATION_FAILED")
    /\ UNCHANGED <<opts, transactions, txBy, ACTIVE_UNTIL, globalLock, coil, switch,
                   upsert, now>>

\* a failure path whose row carries the price as if it had been charged
handle_charge_failtx_charged(r) ==
    /\ req[r].pc = "failtx_wait"
    /\ lock_free(globalLock)
    /\ LET accs == read_accounts
           t    == req[r].tenant
           bal0 == IF t \in DOMAIN accs THEN accs[t] ELSE 0
       IN
       /\ transactions' = Append(transactions,
              append_transaction(t, req[r].machine, req[r].p, bal0, bal0 - req[r].p,
                                 req[r].m, FALSE))
       /\ txBy' = Append(txBy, r)
    /\ machineLock' = release_machine(r)
    /\ req' = Leave(r, NoMachine, "ACTIVATION_FAILED")
    /\ UNCHANGED <<opts, accounts, ACTIVE_UNTIL, globalLock, coil, switch, upsert, now>>

\* lines 757-762: the global lock is entered and the failed row of an
\* activation that did not succeed is appended
handle_charge_failtx(r) ==
    /\ req[r].pc = "failtx_wait"
    /\ lock_free(globalLock)
    /\ LET accs == read_accounts
           t    == req[r].tenant
           bal0 == IF t \in DOMAIN accs THEN accs[t] ELSE 0
       IN
       /\ transactions' = Append(transactions,
              append_transaction(t, req[r].machine, 0, bal0, bal0, req[r].m, FALSE))
       /\ txBy' = Append(txBy, r)
    /\ machineLock' = release_machine(r)
    /\ req' = Leave(r, NoMachine, "ACTIVATION_FAILED")
    /\ UNCHANGED <<opts, accounts, ACTIVE_UNTIL, globalLock, coil, switch, upsert, now>>

\* the best-effort HA turn_off of lines 788-795 and 802-809
rollback_switch(o, s, roll_ok) == IF o.token /\ roll_ok THEN FALSE ELSE s

\* a charge that forgets to take the price off
balance_after_undebited(bal_before, p) == bal_before

\* the balance a successful charge leaves (line 814)
balance_after(bal_before, p) == bal_before - p

\* lines 784-820: the global lock is entered, the account is read again, the
\* balance is checked again and the row of the charge is appended
handle_charge_commit(r, roll_ok) ==
    /\ req[r].pc = "commit_wait"
    /\ lock_free(globalLock)
    /\ LET accs == read_accounts
           t    == req[r].tenant
           mach == req[r].machine
           o    == request_opts(r)
           bal  == IF t \in DOMAIN accs THEN commit_balance(accs, t, req[r].bal_pre)
                   ELSE 0
       IN
       IF t \notin DOMAIN accs THEN
           /\ switch' = [switch EXCEPT ![mach] = rollback_switch(o, switch[mach], roll_ok)]
           /\ ACTIVE_UNTIL' = [ACTIVE_UNTIL EXCEPT ![mach] = NoTimer]
           /\ req' = Leave(r, NoMachine, "TENANT_NOT_FOUND")
           /\ machineLock' = release_machine(r)
           /\ UNCHANGED <<transactions, txBy, globalLock>>
       ELSE IF insufficient_funds(bal, req[r].p) THEN
           \E tts_ok \in TTSOutcomes(opts) :
              IF speak(opts, tts_ok).raised
              THEN /\ req' = SpeakLeave(r, NoMachine, "INSUFFICIENT_FUNDS", tts_ok)
                   /\ machineLock' = release_machine(r)
                   /\ UNCHANGED <<switch, transactions, txBy, ACTIVE_UNTIL, globalLock>>
              ELSE /\ switch' = [switch EXCEPT
                                    ![mach] = rollback_switch(o, switch[mach], roll_ok)]
                   /\ transactions' = Append(transactions,
                          append_transaction(t, mach, 0, bal, bal, req[r].m, FALSE))
                   /\ txBy' = Append(txBy, r)
                   /\ ACTIVE_UNTIL' = [ACTIVE_UNTIL EXCEPT ![mach] = NoTimer]
                   /\ req' = SpeakLeave(r, NoMachine, "INSUFFICIENT_FUNDS", tts_ok)
                   /\ machineLock' = release_machine(r)
                   /\ UNCHANGED globalLock
       ELSE
           LET after == balance_after(bal, req[r].p) IN
           /\ transactions' = Append(transactions,
                  append_transaction(t, mach, req[r].p, bal, after, req[r].m,
                                     req[r].ok \/ o.simulate))
           /\ txBy' = Append(txBy, r)
           /\ req' = [req EXCEPT ![r].pc = "commit_write", ![r].bal_before = bal,
                                 ![r].bal_after = after]
           /\ globalLock' = r
           /\ UNCHANGED <<switch, ACTIVE_UNTIL, machineLock>>
    /\ UNCHANGED <<opts, accounts, coil, upsert, now>>

\* lines 815-836: write_accounts, both locks are left, the start of the
\* machine is spoken, the result is returned
handle_charge_write(r) ==
    /\ req[r].pc = "commit_write"
    /\ accounts' = write_accounts([read_accounts EXCEPT ![req[r].tenant] = req[r].bal_after])
    /\ globalLock' = Free
    /\ machineLock' = release_machine(r)
    /\ \E tts_ok \in TTSOutcomes(opts) : req' = SpeakLeave(r, NoMachine, "CHARGE_OK", tts_ok)
    /\ UNCHANGED <<opts, transactions, txBy, ACTIVE_UNTIL, coil, switch, upsert, now>>

\* -------------------------------------------------------- accounts_upsert
\* line 3043: the global lock is entered
accounts_upsert_lock(t, balance) ==
    /\ upsert.pc = "idle"
    /\ upsert.count < MaxUpserts
    /\ lock_free(globalLock)
    /\ globalLock' = "upsert"
    /\ upsert' = [pc |-> "locked", tenant |-> t, balance |-> balance,
                  count |-> upsert.count + 1]
    /\ UNCHANGED <<opts, accounts, transactions, txBy, ACTIVE_UNTIL, machineLock,
                   coil, switch, req, now>>

\* lines 3044-3051: read, replace the row, write
accounts_upsert_write ==
    /\ upsert.pc = "locked"
    /\ accounts' = write_accounts((upsert.tenant :> upsert.balance) @@ read_accounts)
    /\ globalLock' = Free
    /\ upsert' = [upsert EXCEPT !.pc = "idle"]
    /\ UNCHANGED <<opts, transactions, txBy, ACTIVE_UNTIL, machineLock, coil,
                   switch, req, now>>

\* what machine_is_available can read for a machine under options o: nothing
\* is read for a machine that is not enabled, the ADAM input only when an
\* ADAM host is configured, the HA sensor only when a token is configured and
\* the ADAM input did not decide
DIReads(o, mach) ==
    IF o.adam /\ mach \in Machines /\ machine_enabled(mach, o) THEN TriState
    ELSE {"unknown"}
HAReads(o, mach, di) ==
    IF o.token /\ mach \in Machines /\ machine_enabled(mach, o) /\ di = "unknown"
    THEN SensorStates ELSE {"unknown"}

\* POST /charge (lines 3097-3116): the options are those on disk
charge(t, mach, price, minutes, di, ha) ==
    handle_charge_begin("http", t, mach, price, minutes, FALSE, di, ha)

\* GET /simulate/charge (lines 3118-3139): simulate is forced; minutes >= 1
simulate_charge(t, mach, price, minutes, di, ha) ==
    /\ price = NoValue \/ price >= 0
    /\ minutes = NoValue \/ minutes >= 1
    /\ handle_charge_begin("http", t, mach, price, minutes, TRUE, di, ha)

\* KeypadStateMachine.on_sym, ENTER in CONFIRM (lines 909-918): the code and
\* the machine chosen on the keypad, no price, no minutes, options from disk
keypad_confirm(t, mach, di, ha) ==
    handle_charge_begin("keypad", t, mach, NoValue, NoValue, FALSE, di, ha)

\* what the writes and polls of operate_machine can meet under the options
\* on disk: nothing is written or read in simulation, only a pulse has an
\* off-write of its own, the confirm loop runs only after the writes got
\* through, the rollback write is issued only when no poll read active
WriteOutcomes == IF opts.simulate THEN {TRUE} ELSE BOOLEAN
PulseOutcomes(on_ok) ==
    IF ~opts.simulate /\ opts.adam /\ opts.do_mode = "pulse" /\ on_ok
    THEN BOOLEAN ELSE {TRUE}
PollOutcomes(on_ok, off_ok) ==
    IF ~opts.simulate /\ (opts.adam \/ opts.token) /\ on_ok /\ off_ok
    THEN [1..MaxPolls -> TriState] ELSE {[i \in 1..MaxPolls |-> "unknown"]}
RollbackOutcomes(on_ok, off_ok, polls) ==
    IF ~opts.simulate /\ on_ok /\ off_ok /\ ~confirm_loop(polls)
    THEN BOOLEAN ELSE {TRUE}

\* the steps of one request inside _handle_charge
handle_charge(r) ==
    \/ global_lock_timeout(r)
    \/ handle_charge_precheck(r)
    \/ \E di \in DIReads(request_opts(r), req[r].machine) :
          \E ha \in HAReads(request_opts(r), req[r].machine, di) :
              handle_charge_recheck(r, di, ha)
    \/ \E on_ok \in WriteOutcomes : \E off_ok \in PulseOutcomes(on_ok) :
          \E polls \in PollOutcomes(on_ok, off_ok) :
              \E roll_ok \in RollbackOutcomes(on_ok, off_ok, polls) :
                  handle_charge_operate(r, on_ok, off_ok, roll_ok, polls)
    \/ handle_charge_failtx(r)
    \/ \E roll_ok \in (IF opts.token THEN BOOLEAN ELSE {TRUE}) :
          handle_charge_commit(r, roll_ok)
    \/ handle_charge_write(r)

\* the request fields that matter: nothing but the tenant and the machine is
\* looked at before the input is found valid
PricesFor(t, mach) == IF t = NoTenant \/ mach = NoMachine THEN {NoValue} ELSE PriceInputs

\* an HTTP request arrives
http_request ==
    \/ \E t \in TenantInputs, mach \in MachineInputs : \E price \in PricesFor(t, mach),
          minutes \in MinuteInputs, di \in DIReads(opts, mach) :
              \E ha \in HAReads(opts, mach, di) :
                  charge(t, mach, price, minutes, di, ha)
    \/ \E t \in TenantInputs, mach \in MachineInputs : \E price \in PricesFor(t, mach),
          minutes \in MinuteInputs, di \in DIReads(opts, mach) :
              \E ha \in HAReads(opts, mach, di) :
                  simulate_charge(t, mach, price, minutes, di, ha)

\* an HTTP charge and a keypad charge side by side
Next ==
    \/ http_request /\ UNCHANGED <<keypadVars, statusVars, deviceVars>>
    \/ /\ \E t \in Accounts, mach \in Machines : \E di \in DIReads(opts, mach) :
             \E ha \in HAReads(opts, mach, di) :
                 keypad_confirm(t, mach, di, ha)
       /\ UNCHANGED <<keypadVars, statusVars, deviceVars>>
    \/ (\E r \in Reqs : handle_charge(r)) /\ UNCHANGED <<keypadVars, statusVars, deviceVars>>
    \/ (\E r \in Reqs : machine_lock_timeout(r)) /\ UNCHANGED <<keypadVars, statusVars, deviceVars>>

\* an HTTP charge and account upserts side by side
NextUpsert ==
    \/ http_request /\ UNCHANGED <<keypadVars, statusVars, deviceVars>>
    \/ handle_charge("http") /\ UNCHANGED <<keypadVars, statusVars, deviceVars>>
    \/ /\ \E t \in UpsertTenants, balance \in UpsertInputs : accounts_upsert_lock(t, balance)
       /\ UNCHANGED <<keypadVars, statusVars, deviceVars>>
    \/ accounts_upsert_write /\ UNCHANGED <<keypadVars, statusVars, deviceVars>>

Spec == Init /\ [][Next]_vars

SpecUpsert == Init /\ [][NextUpsert]_vars

\* the thread of one request inside _handle_charge: its next step, which for
\* a file_lock is either the lock or the TimeoutError
charge_step(r) ==
    /\ handle_charge(r) \/ machine_lock_timeout(r)
    /\ UNCHANGED <<keypadVars, statusVars, deviceVars>>

\* the balance posted to /accounts/upsert next to the two charges: 6.00
TopUps == {6000}

\* an HTTP charge, a keypad charge and account upserts side by side; both
\* charges carry a tenant and a machine and leave price and minutes to the
\* options
NextLocks ==
    \/ /\ \E t \in Accounts, mach \in Machines : \E di \in DIReads(opts, mach) :
             \E ha \in HAReads(opts, mach, di) :
                 charge(t, mach, NoValue, NoValue, di, ha)
       /\ UNCHANGED <<keypadVars, statusVars, deviceVars>>
    \/ /\ \E t \in Accounts, mach \in Machines : \E di \in DIReads(opts, mach) :
             \E ha \in HAReads(opts, mach, di) :
                 keypad_confirm(t, mach, di, ha)
       /\ UNCHANGED <<keypadVars, statusVars, deviceVars>>
    \/ \E r \in Reqs : charge_step(r)
    \/ /\ \E t \in UpsertTenants, balance \in TopUps : accounts_upsert_lock(t, balance)
       /\ UNCHANGED <<keypadVars, statusVars, deviceVars>>
    \/ accounts_upsert_write /\ UNCHANGED <<keypadVars, statusVars, deviceVars>>

\* the installation in real mode with an ADAM host and without a Home
\* Assistant token: the machines are driven through the ADAM module, an
\* activation can fail, nothing is spoken
InitLocks == Init /\ ~opts.simulate /\ opts.adam /\ ~opts.token

\* a request that is inside _handle_charge runs on: the handler is a thread
\* of the server (or the keypad thread), and the loop of file_lock sleeps
\* 50 ms at a time until it has the lock or 10 s have passed
SpecLocks == InitLocks /\ [][NextLocks]_vars /\ \A r \in Reqs : WF_vars(charge_step(r))

\* --------------------------------------------------- keypad: the actions
\* the options ensure_bootstrap_files writes: simulation, pulse, an ADAM host
BootstrapOptions ==
    CHOOSE o \in InitOptions : o.simulate /\ o.do_mode = "pulse" /\ o.adam /\ ~o.token

\* time.monotonic() moves on
tick ==
    /\ mono < MaxMono
    /\ mono' = mono + 1
    /\ UNCHANGED <<chargeVars, statusVars, deviceVars, session, resp, audit, ksm>>

\* KeypadSession.feed(ch)
feed(ch) ==
    LET out     == feed_outcome(session, ch, mono)
        handled == ~is_locked(session, mono) /\ ch # ""
        expired == handled /\ interkey_expired(session, mono)
        full    == /\ handled /\ ch \in KeyDigits
                   /\ Len(apply_interkey_timeout(session, mono).buffer)
                          >= session.policy.code_length
    IN  /\ session' = out.s
        /\ resp' = [response(out, ch, mono, expired, full) EXCEPT !.n = 1 - resp.n]
        /\ audit' = audit_after(audit, session, ch, out, expired)
        /\ UNCHANGED <<chargeVars, statusVars, deviceVars, mono, ksm>>

NextSession ==
    \/ tick
    \/ \E ch \in Keys : feed(ch)

InitSession ==
    /\ opts = BootstrapOptions
    /\ InitCharge
    /\ \E policy \in Policies : InitKeypad(policy)
    /\ InitStatus
    /\ InitDevice

SpecSession == InitSession /\ [][NextSession]_vars

\* a reset that ends the lockout as well
session_reset_unlocking(s) ==
    [s EXCEPT !.buffer = <<>>, !.failed_attempts = 0, !.lockout_until = 0]

\* KeypadSession.reset (lines 170-173): the buffer and the failed attempts
session_reset(s) == [s EXCEPT !.buffer = <<>>, !.failed_attempts = 0]

\* a call of KeypadSession.reset()
reset_session ==
    /\ session' = session_reset(session)
    /\ audit' = [pure |-> FALSE, digs |-> 0, calls |-> 0, gap |-> FALSE, streak |-> 0,
                 reset_locked |-> is_locked(session, mono)]
    /\ UNCHANGED <<chargeVars, statusVars, deviceVars, mono, resp, ksm>>

\* KeypadSession.backspace() and clear(): feed of the backspace and clear key
backspace == feed(BACKSPACE_KEY)
clear == feed(CLEAR_KEY)

\* a session that is fed keys and on which the helpers and reset are called
NextSessionCalls ==
    \/ tick
    \/ \E ch \in Keys : feed(ch)
    \/ backspace
    \/ clear
    \/ reset_session

SpecSessionCalls == InitSession /\ [][NextSessionCalls]_vars

\* int(sym) of a digit
int_of(sym) == IF sym = "1" THEN 1 ELSE 7

\* KeypadStateMachine._reset at time t
reset(k, t) ==
    [k EXCEPT !.state = "IDLE", !.buf_code = "", !.sel_machine = NoMachine,
              !.last_input = t]

\* a controller without an input timeout
input_timed_out_never(k, t) == FALSE

\* the timeout test at the head of on_sym
input_timed_out(k, t) ==
    (t - k.last_input) > 2 * controller_timeout_s /\ k.state # "IDLE"

\* the phrase on_sym speaks for the way the charge ended (lines 919-932)
charge_phrase(outcome) ==
    IF outcome = "return" THEN "Payment accepted. Starting the cycle."
    ELSE IF outcome = "409" THEN "Machine is busy."
    ELSE IF outcome = "402" THEN "Insufficient balance."
    ELSE IF outcome = "423" THEN "Machine disabled."
    ELSE IF outcome = "404" THEN "User not found."
    ELSE IF outcome = "exception" THEN "Operation failed."
    ELSE "detail"

\* a CONFIRM handler that resets only after a charge that returned
confirm_enter_reset_on_success(k, outcome, t) ==
    LET c == [k EXCEPT !.charges = 1, !.outcome = outcome,
                       !.spoken = charge_phrase(outcome)]
    IN  IF outcome = "return" THEN reset(c, t) ELSE c

\* lines 909-934: ENTER in CONFIRM calls handle_charge_fn, speaks, resets
confirm_enter(k, outcome, t) ==
    reset([k EXCEPT !.charges = 1, !.outcome = outcome,
                    !.spoken = charge_phrase(outcome)], t)

\* a cancel that leaves the code in the buffer
cancel_keeping_code(k, t) ==
    [k EXCEPT !.state = "IDLE", !.sel_machine = NoMachine, !.last_input = t,
              !.spoken = "Cancelled."]

\* lines 869-872: CANCEL resets and speaks
cancel(k, t) == [reset(k, t) EXCEPT !.spoken = "Cancelled."]

\* an ENTER_CODE branch that takes any six digits for a code
enter_code_unchecked(k, sym, t) ==
    IF sym \in KeyDigits
    THEN (IF Len(k.buf_code) < CODE_DIGITS
          THEN [k EXCEPT !.buf_code = k.buf_code \o sym] ELSE k)
    ELSE IF sym = "ENTER"
    THEN (IF Len(k.buf_code) = CODE_DIGITS
          THEN [k EXCEPT !.state = "SELECT_MACHINE", !.spoken = "Code accepted."]
          ELSE [k EXCEPT !.spoken = "Code must be 6 digits."])
    ELSE k

\* lines 881-897, the ENTER_CODE branch: a digit is appended while fewer than
\* six are buffered; ENTER with six digits looks the code up in the accounts
enter_code(k, sym, t) ==
    IF sym \in KeyDigits
    THEN (IF Len(k.buf_code) < CODE_DIGITS
          THEN [k EXCEPT !.buf_code = k.buf_code \o sym] ELSE k)
    ELSE IF sym = "ENTER"
    THEN (IF Len(k.buf_code) = CODE_DIGITS
          THEN (IF k.buf_code \notin DOMAIN read_accounts
                THEN reset([k EXCEPT !.spoken = "Invalid code."], t)
                ELSE [k EXCEPT !.state = "SELECT_MACHINE", !.spoken = "Code accepted."])
          ELSE [k EXCEPT !.spoken = "Code must be 6 digits."])
    ELSE k

\* a SELECT_MACHINE branch that takes every digit for a machine
select_machine_any_digit(k, sym) ==
    IF sym \in KeyDigits
    THEN [k EXCEPT !.sel_machine = int_of(sym), !.state = "CONFIRM",
                   !.spoken = "Machine selected."]
    ELSE k

\* lines 899-906, the SELECT_MACHINE branch: a digit from 1 to 6 is the machine
select_machine(k, sym) ==
    IF sym \in KeyDigits /\ 1 <= int_of(sym) /\ int_of(sym) <= 6
    THEN [k EXCEPT !.sel_machine = int_of(sym), !.state = "CONFIRM",
                   !.spoken = "Machine selected."]
    ELSE k

\* KeypadStateMachine.on_sym(sym); outcome is the way the call of
\* handle_charge_fn ends if the handler makes it (what the call does to the
\* ledger and the machine are the steps of handle_charge)
on_sym(sym, outcome) ==
    LET t  == mono
        k0 == IF input_timed_out(ksm, t)
              THEN [reset(ksm, t) EXCEPT !.spoken = "Timeout."]
              ELSE ksm
        k  == [k0 EXCEPT !.last_input = t, !.charges = 0, !.sym = sym,
                         !.from = ksm.state, !.outcome = "", !.n = 1 - ksm.n]
    IN
    /\ ksm' =
         IF sym = "CANCEL" THEN cancel(k, t)
         ELSE IF k.state = "IDLE" THEN
             IF sym \in KeyDigits
             THEN [k EXCEPT !.state = "ENTER_CODE", !.buf_code = sym,
                            !.spoken = "Enter your 6 digit code."]
             ELSE k
         ELSE IF k.state = "ENTER_CODE" THEN enter_code(k, sym, t)
         ELSE IF k.state = "SELECT_MACHINE" THEN select_machine(k, sym)
         ELSE IF sym = "ENTER" THEN confirm_enter(k, outcome, t)
         ELSE k
    /\ UNCHANGED <<chargeVars, statusVars, deviceVars, mono, session, resp, audit>>

\* the ways the call can end, for a symbol that leads to the call
CallOutcomes(sym) ==
    IF sym = "ENTER" /\ ksm.state = "CONFIRM" /\ ~input_timed_out(ksm, mono)
    THEN ChargeOutcomes ELSE {""}

NextController ==
    \/ tick
    \/ \E sym \in Symbols : \E outcome \in CallOutcomes(sym) : on_sym(sym, outcome)

InitController ==
    /\ opts = BootstrapOptions
    /\ InitCharge
    /\ InitKeypad(DefaultPolicy)
    /\ InitStatus
    /\ InitDevice

SpecController == InitController /\ [][NextController]_vars

\* ------------------------------------------------------ GET /machines
\* what the reads of one GET /machines return: every machine's input reads
\* di, every machine's sensor reads ha
StatusDIReads == IF opts.adam THEN TriState ELSE {"unknown"}
StatusHAReads == IF opts.token THEN SensorStates ELSE {"unknown"}

\* GET /machines (lines 2910-3022)
machines(di, ha) ==
    /\ listing' = [n |-> 1 - listing.n, di |-> di, ha |-> ha,
                   out |-> [mid \in Machines |->
                               machines_entry(mid, opts, di, ha, ACTIVE_UNTIL, now)]]
    /\ UNCHANGED <<chargeVars, keypadVars, deviceVars>>

\* a keypad charge and status requests side by side
NextStatus ==
    \/ /\ \E t \in Accounts, mach \in Machines : \E di \in DIReads(opts, mach) :
             \E ha \in HAReads(opts, mach, di) :
                 keypad_confirm(t, mach, di, ha)
       /\ UNCHANGED <<keypadVars, statusVars, deviceVars>>
    \/ handle_charge("keypad") /\ UNCHANGED <<keypadVars, statusVars, deviceVars>>
    \/ \E di \in StatusDIReads, ha \in StatusHAReads : machines(di, ha)

\* the three sources of machine_enabled for machine 5: the override and the
\* flag absent, true or false, the machine listed or not, in the combinations
\* where one source stands alone and where two of them disagree; the other
\* machines have no source
SourceCases ==
    { <<"absent", "absent", {}>>, <<"absent", "absent", {5}>>,
      <<"false", "absent", {}>>, <<"absent", "false", {}>>,
      <<"true", "absent", {5}>>, <<"true", "false", {}>>,
      <<"absent", "true", {5}>>, <<"false", "true", {}>> }

StatusSources ==
    { [override |-> [x \in Machines |-> IF x = 5 THEN c[1] ELSE "absent"],
       flag |-> [x \in Machines |-> IF x = 5 THEN c[2] ELSE "absent"],
       disabled_machines |-> c[3]] : c \in SourceCases }

InitStatusOptions ==
    { [o EXCEPT !.override = e.override, !.flag = e.flag,
                !.disabled_machines = e.disabled_machines] :
      o \in InitOptions, e \in StatusSources }

InitStatusSpec ==
    /\ opts \in InitStatusOptions
    /\ InitCharge
    /\ InitKeypad(DefaultPolicy)
    /\ InitStatus
    /\ InitDevice

SpecStatus == InitStatusSpec /\ [][NextStatus]_vars

\* ------------------------------------------------ the ADAM operations
\* the machine the operations are called for
AdamMachine == 1

\* what the attempts of a call of an Adam6050 method meet: one outcome for
\* each attempt the loop can make, nothing when no session is opened
Outcomes(S) == IF adam.enabled /\ HAS_PYMODBUS THEN [1 .. adam.retries -> S] ELSE {<<>>}

\* what the one attempt of a main.py helper meets
HelperOutcomes(S) == IF HAS_PYMODBUS /\ opts.adam THEN S ELSE {"none"}

\* the record of a call: the outcomes it met, what it returned (ok for a
\* write, state for a read) and the inversion a read worked with
called(op, ok, state, res, outs, inv) ==
    [n |-> 1 - call.n, op |-> op, ok |-> ok, state |-> state,
     attempts |-> res.attempts, sessions |-> res.sessions,
     outs |-> SubSeq(outs, 1, res.attempts), inv |-> inv]

\* Adam6050.set_on(1)
adam6050_set_on(outs) ==
    LET res == set_on(adam, HAS_PYMODBUS, coil[AdamMachine], outs) IN
    /\ coil' = [coil EXCEPT ![AdamMachine] = res.coil]
    /\ adam' = [adam EXCEPT !.mock_active = res.mock_active]
    /\ call' = called("set_on", res.ok, "none", res, outs, FALSE)
    /\ UNCHANGED <<opts, accounts, transactions, txBy, ACTIVE_UNTIL, globalLock,
                   machineLock, switch, req, upsert, now, HAS_PYMODBUS,
                   keypadVars, statusVars>>

\* Adam6050.set_off(1)
adam6050_set_off(outs) ==
    LET res == set_off(adam, HAS_PYMODBUS, coil[AdamMachine], outs) IN
    /\ coil' = [coil EXCEPT ![AdamMachine] = res.coil]
    /\ adam' = [adam EXCEPT !.mock_active = res.mock_active]
    /\ call' = called("set_off", res.ok, "none", res, outs, FALSE)
    /\ UNCHANGED <<opts, accounts, transactions, txBy, ACTIVE_UNTIL, globalLock,
                   machineLock, switch, req, upsert, now, HAS_PYMODBUS,
                   keypadVars, statusVars>>

\* Adam6050.pulse_relay(1)
adam6050_pulse_relay(outs) ==
    LET res == pulse_relay(adam, HAS_PYMODBUS, coil[AdamMachine], outs) IN
    /\ coil' = [coil EXCEPT ![AdamMachine] = res.coil]
    /\ adam' = [adam EXCEPT !.mock_active = res.mock_active]
    /\ call' = called("pulse_relay", res.ok, "none", res, outs, FALSE)
    /\ UNCHANGED <<opts, accounts, transactions, txBy, ACTIVE_UNTIL, globalLock,
                   machineLock, switch, req, upsert, now, HAS_PYMODBUS,
                   keypadVars, statusVars>>

\* Adam6050.is_machine_active(1, invert=invert)
adam6050_is_machine_active(invert, outs) ==
    LET res == is_machine_active(adam, HAS_PYMODBUS, invert, outs)
        inv == IF invert = "none" THEN adam.invert_di_global ELSE invert = "true"
    IN
    /\ call' = called("is_machine_active", FALSE, res.state, res, outs, inv)
    /\ UNCHANGED <<chargeVars, keypadVars, statusVars, adam, HAS_PYMODBUS>>

\* _adam_write_coil(coil_index, state, opts) of main.py
main_adam_write_coil(state, out) ==
    LET res == adam_write_coil(opts, HAS_PYMODBUS, coil[AdamMachine], state, out) IN
    /\ coil' = [coil EXCEPT ![AdamMachine] = res.coil]
    /\ call' = called("_adam_write_coil", res.ok, "none", res, <<out>>, FALSE)
    /\ UNCHANGED <<opts, accounts, transactions, txBy, ACTIVE_UNTIL, globalLock,
                   machineLock, switch, req, upsert, now, adam, HAS_PYMODBUS,
                   keypadVars, statusVars>>

\* _adam_pulse(coil_index, pulse_seconds, opts) of main.py: the ON write, the
\* delay, the OFF write, each write on a session of its own
main_adam_pulse(on_out, off_out) ==
    LET on  == adam_write_coil(opts, HAS_PYMODBUS, coil[AdamMachine], TRUE, on_out)
        off == adam_write_coil(opts, HAS_PYMODBUS, on.coil, FALSE, off_out)
        res == adam_pulse(coil[AdamMachine], on.ok, off.ok)
        io  == [attempts |-> IF on.ok THEN on.attempts + off.attempts ELSE on.attempts,
                sessions |-> IF on.ok THEN on.sessions + off.sessions ELSE on.sessions]
    IN
    /\ coil' = [coil EXCEPT ![AdamMachine] = res.coil]
    /\ call' = called("_adam_pulse", res.ok, "none", io, <<on_out, off_out>>, FALSE)
    /\ UNCHANGED <<opts, accounts, transactions, txBy, ACTIVE_UNTIL, globalLock,
                   machineLock, switch, req, upsert, now, adam, HAS_PYMODBUS,
                   keypadVars, statusVars>>

\* _adam_read_di(di_index, opts) of main.py
main_adam_read_di(out) ==
    LET res == adam_read_di(opts, HAS_PYMODBUS, out) IN
    /\ call' = called("_adam_read_di", FALSE, res.state, res, <<out>>, opts.invert_di)
    /\ UNCHANGED <<chargeVars, keypadVars, statusVars, adam, HAS_PYMODBUS>>

NextAdam ==
    \/ \E outs \in Outcomes(WriteAttempts) : adam6050_set_on(outs)
    \/ \E outs \in Outcomes(WriteAttempts) : adam6050_set_off(outs)
    \/ \E outs \in Outcomes(PulseAttempts) : adam6050_pulse_relay(outs)
    \/ \E invert \in {"none", "true", "false"} :
          \E outs \in Outcomes(ReadAttempts) : adam6050_is_machine_active(invert, outs)
    \/ \E state \in BOOLEAN :
          \E out \in HelperOutcomes(WriteAttempts) : main_adam_write_coil(state, out)
    \/ \E on_out \in HelperOutcomes(WriteAttempts) :
          \E off_out \in HelperOutcomes(WriteAttempts) : main_adam_pulse(on_out, off_out)
    \/ \E out \in HelperOutcomes(ReadAttempts) : main_adam_read_di(out)

\* the options of the ADAM helpers: adam_host set or empty, invert_di
AdamOptions ==
    { BootstrapOptions @@ [invert_di |-> inv] :
      inv \in BOOLEAN }
    \cup { [BootstrapOptions EXCEPT !.adam = FALSE] @@ [invert_di |-> FALSE] }

InitAdam ==
    /\ opts \in AdamOptions
    /\ InitCharge
    /\ InitKeypad(DefaultPolicy)
    /\ InitStatus
    /\ \E enabled \in BOOLEAN, inv \in BOOLEAN, retries \in RetryInputs :
          adam = Adam6050(enabled, inv, retries)
    /\ HAS_PYMODBUS \in BOOLEAN
    /\ call = NoCall

SpecAdam == InitAdam /\ [][NextAdam]_vars

\* ------------------------------------------------------------- properties
\* the rows a request appended, and the row of a request that appended one
RowsBy(r) == {i \in DOMAIN txBy : txBy[i] = r}
RowOf(r) == transactions[CHOOSE i \in RowsBy(r) : TRUE]

\* the row a step appended
NewRow == transactions'[Len(transactions')]
Appends(r) ==
    /\ Len(transactions') = Len(transactions) + 1
    /\ SubSeq(transactions', 1, Len(transactions)) = transactions
    /\ txBy'[Len(txBy')] = r

\* the step that completes an accepted charge
Accepted(r) == req[r].pc = "commit_write" /\ req'[r].pc = "done"

\* one request starts while the other is inside _handle_charge
Concurrent(r1, r2) == req[r1].overlap \/ req[r2].overlap

C3_AsStated ==
    [][\A r1, r2 \in Reqs :
          (/\ r1 # r2
           /\ opts.simulate
           /\ Concurrent(r1, r2)
           /\ req[r2].pc = "machine_wait"
           /\ req[r1].operated
           /\ \E i \in RowsBy(r1) : /\ transactions[i].success
                                    /\ transactions[i].machine_number = req[r2].machine)
          => req'[r2].pc # "operate"]_vars

\* the span of the machine lock: from the re-check to the end of the commit
InSpan(r) == req[r].pc \in {"operate", "failtx_wait", "commit_wait", "commit_write"}

\* C4: while a request is between the re-check and the end of its commit it
\* holds the lock of its machine, and no other request is in that span for
\* the same machine.
C4_MachineLock ==
    /\ \A r \in Reqs : InSpan(r) => machineLock[req[r].machine] = r
    /\ \A r1, r2 \in Reqs : (r1 # r2 /\ InSpan(r1) /\ InSpan(r2))
                                => req[r1].machine # req[r2].machine

\* two requests for different machines are in their spans at the same time
C4_Witness ==
    /\ InSpan("http") /\ InSpan("keypad")
    /\ req["http"].machine # req["keypad"].machine
    /\ req["http"].pc = "commit_wait" /\ req["keypad"].pc = "commit_wait"

\* C5: no step of a charge request other than the one that completes an
\* accepted charge changes a balance: a request that ends with a failure
\* (validation, disabled, busy, lock timeout, activation or confirmation
\* failure) leaves every account balance as it was.
C5_FailureKeepsBalances ==
    [][\A r \in Reqs : (req'[r] # req[r] /\ ~Accepted(r)) => accounts' = accounts]_vars

\* a request has failed after its activation was tried, another was charged
C5_Witness ==
    \E r1, r2 \in Reqs :
        /\ req[r1].result = "ACTIVATION_FAILED" /\ req[r1].ons > 0
        /\ req[r2].result = "CHARGE_OK"
        /\ accounts["111111"] = 300

\* the commit of a request runs: it was waiting for the ledger lock and got it
CommitRuns(r) ==
    req[r].pc = "commit_wait" /\ lock_free(globalLock) /\ req'[r] # req[r]

\* C6: the commit works with the balance it reads under the ledger lock, not
\* with the one the pre-check read.  The balance_before of the row is the
\* balance the ledger holds at the commit, the balance_after the commit
\* computes is that balance minus the price (the row holds it with two
\* decimals), and when that balance is below the price the request ends with
\* INSUFFICIENT_FUNDS and no balance is written.
C6_CommitRereads ==
    [][\A r \in Reqs : (CommitRuns(r) /\ req[r].tenant \in DOMAIN accounts) =>
          LET bal == read_float(accounts[req[r].tenant])
              p   == req[r].p
          IN
          IF bal < p
          THEN /\ req'[r].pc = "done"
               /\ req'[r].result = "INSUFFICIENT_FUNDS"
               /\ accounts' = accounts
          ELSE /\ req'[r].pc = "commit_write"
               /\ Appends(r)
               /\ NewRow.balance_before = accounts[req[r].tenant]
               /\ req'[r].bal_before = bal
               /\ req'[r].bal_after = bal - p
               /\ NewRow.balance_after = num_to_text(bal - p)]_vars

\* an upsert has changed the balance between the pre-check and the commit of
\* a charge, and the commit has gone through with the new balance
C6_Witness ==
    /\ req["http"].pc = "commit_write"
    /\ req["http"].bal_pre = 8000
    /\ req["http"].bal_before = 6000
    /\ upsert.count > 0

\* the pre-check of a request runs: it was waiting for the ledger lock and got it
PrecheckRuns(r) ==
    req[r].pc = "precheck_wait" /\ lock_free(globalLock) /\ req'[r] # req[r]

\* C7: a request whose tenant has less than the price at the pre-check ends
\* with INSUFFICIENT_FUNDS; exactly one row is appended, with amount_charged 0,
\* balance_after = balance_before = the balance and success = false; no
\* output is written and no balance changes.
C7_PrecheckInsufficient ==
    [][\A r \in Reqs :
          (/\ PrecheckRuns(r)
           /\ req[r].tenant \in DOMAIN accounts
           /\ read_float(accounts[req[r].tenant]) < req[r].p)
          => /\ req'[r].pc = "done"
             /\ req'[r].result = "INSUFFICIENT_FUNDS"
             /\ Appends(r)
             /\ Cardinality(RowsBy(r)') = 1
             /\ NewRow.tenant_code = req[r].tenant
             /\ NewRow.machine_number = req[r].machine
             /\ NewRow.amount_charged = 0
             /\ NewRow.balance_before = accounts[req[r].tenant]
             /\ NewRow.balance_after = NewRow.balance_before
             /\ ~NewRow.success
             /\ ~req'[r].operated /\ req'[r].ons = 0
             /\ coil' = coil /\ switch' = switch
             /\ accounts' = accounts]_vars

\* a request was turned away by the pre-check and left its failed row
C7_Witness ==
    \E r \in Reqs :
        /\ req[r].result = "INSUFFICIENT_FUNDS"
        /\ ~req[r].operated
        /\ \E i \in RowsBy(r) : transactions[i].amount_charged = 0
                                /\ transactions[i].balance_after = 300

\* C8 as stated, for the requests that get the ledger lock: in hold mode a
\* request whose activation was issued and never confirmed has re-issued the
\* deactivation and goes to the failure path, where it ends with
\* ACTIVATION_FAILED, appends one failed row with amount_charged 0 and leaves
\* the balances alone.
C8_AsStated ==
    [][\A r \in Reqs :
          (/\ opts.do_mode = "hold"
           /\ req[r].exit = "unconfirmed"
           /\ req[r].pc \notin {"idle", "done"}
           /\ lock_free(globalLock)
           /\ req'[r] # req[r])
          => /\ req[r].offs >= 1
             /\ req'[r].result = "ACTIVATION_FAILED"
             /\ Appends(r)
             /\ NewRow.amount_charged = 0
             /\ ~NewRow.success
             /\ accounts' = accounts]_vars

\* the sources the specification names for a disabled machine
ListedDisabled(mach) ==
    mach \in opts.disabled_machines \/ is_false(opts.override[mach])

\* C9: a charge with valid input for a machine that is in disabled_machines,
\* or whose enabled override is false, ends at the gates with
\* MACHINE_DISABLED, appends no row, changes no balance and writes no output.
C9_DisabledMachine ==
    [][\A r \in Reqs :
          (/\ req[r].pc = "idle"
           /\ req'[r].machine \in Machines
           /\ ListedDisabled(req'[r].machine))
          => /\ req'[r].pc = "done"
             /\ req'[r].result = "MACHINE_DISABLED"
             /\ ~req'[r].operated /\ req'[r].ons = 0
             /\ coil' = coil /\ switch' = switch
             /\ transactions' = transactions
             /\ accounts' = accounts]_vars

\* a charge for the disabled machine 5 has been refused
C9_Witness ==
    \E r \in Reqs : req[r].result = "MACHINE_DISABLED" /\ req[r].machine = 5

\* C10 as stated: a request that cannot get the lock of its machine ends with
\* the failure code LOCK_TIMEOUT, has written no output, has appended no row
\* and has changed no balance.
C10_AsStated ==
    [][\A r \in Reqs :
          (/\ req[r].pc = "machine_wait"
           /\ ~lock_free(machineLock[req[r].machine])
           /\ req'[r].pc = "done")
          => /\ req'[r].result = "LOCK_TIMEOUT"
             /\ ~req'[r].operated /\ req'[r].ons = 0
             /\ coil' = coil /\ switch' = switch
             /\ transactions' = transactions
             /\ accounts' = accounts]_vars

\* C11 as stated: a request whose options have simulate set (on disk, or
\* forced by /simulate/charge) skips the activation and the confirmation: its
\* operate step writes no output, reads no input and counts as successful.
C11_AsStated ==
    [][\A r \in Reqs :
          (req[r].pc = "operate" /\ req[r].simulate /\ req'[r] # req[r])
          => /\ req'[r].exit = "simulated"
             /\ req'[r].ons = 0 /\ req'[r].offs = 0
             /\ coil' = coil /\ switch' = switch
             /\ req'[r].ok]_vars

\* C12 as stated: the verifier is called only with a code of exactly
\* code_length digits; while fewer than code_length digits have been fed, with
\* or without confirm keys, it has not been called; and in a session without
\* require_confirm, once exactly code_length digits have been fed it has been
\* called exactly once.
C12_AsStated ==
    /\ resp.calls = 1 => Len(resp.code) = session.policy.code_length
    /\ (audit.pure /\ audit.digs < session.policy.code_length) => audit.calls = 0
    /\ (audit.pure /\ ~session.policy.require_confirm
            /\ audit.digs = session.policy.code_length)
       => audit.calls = 1

\* C12 amended: the same, and the one call of the auto-validating session is
\* promised only when no inter-key timeout has discarded a digit on the way;
\* the call is then made by the feed of the last digit.
C12_VerifierCalls ==
    /\ resp.calls = 1 => Len(resp.code) = session.policy.code_length
    /\ (audit.pure /\ audit.digs < session.policy.code_length) => audit.calls = 0
    /\ (audit.pure /\ ~session.policy.require_confirm /\ ~audit.gap
            /\ audit.digs = session.policy.code_length)
       => audit.calls = 1
    /\ (audit.pure /\ ~session.policy.require_confirm /\ ~audit.gap
            /\ audit.digs = session.policy.code_length /\ resp.key \in KeyDigits)
       => resp.calls = 1

C12_Witness ==
    /\ audit.pure /\ ~session.policy.require_confirm /\ ~audit.gap
    /\ session.policy.code_length = 2 /\ audit.digs = 2
    /\ resp.key \in KeyDigits /\ resp.calls = 1 /\ Len(resp.code) = 2


\* a feed has returned
FeedStep == resp'.n # resp.n

\* the whole seconds of lockout left at the time of the step
LockoutLeft ==
    IF session.lockout_until > mono THEN round_seconds(session.lockout_until - mono) ELSE 0

\* C13: the feed whose rejected validation is the max_failed_attempts-th in a
\* row returns locked, and every feed made while remaining_lockout is above
\* zero returns locked.
C13_Lockout ==
    [][FeedStep =>
         /\ (resp'.calls = 1 /\ ~verify_fn(resp'.code)
                 /\ audit.streak + 1 >= session.policy.max_failed_attempts)
            => resp'.status = "locked"
         /\ LockoutLeft > 0 => (resp'.status = "locked" /\ resp'.event = "invalid")]_vars

C13_Witness ==
    /\ session.policy.max_failed_attempts = 2
    /\ resp.status = "locked" /\ resp.event = "invalid"
    /\ resp.remaining_lockout_s > 0
    /\ mono > session.lockout_until - 2 * session.policy.lockout_seconds

\* C14: a feed made while the session is locked leaves buffer,
\* failed_attempts and lockout_until as they are and does not call the
\* verifier; a feed made once the clock has reached lockout_until is handled
\* as a key, not answered with the lockout.
C14_LockedFeed ==
    [][FeedStep =>
         /\ mono < session.lockout_until
            => /\ session'.buffer = session.buffer
               /\ session'.failed_attempts = session.failed_attempts
               /\ session'.lockout_until = session.lockout_until
               /\ resp'.calls = 0
         /\ mono >= session.lockout_until
            => ~(resp'.status = "locked" /\ resp'.event = "invalid")]_vars

\* a key is collected after a lockout has run out, and one was refused in it
C14_Witness ==
    /\ session.lockout_until > 0 /\ mono >= session.lockout_until
    /\ resp.status = "collecting" /\ resp.key \in KeyDigits
    /\ session.buffer # <<>>

\* C15 as stated: a validation that rejects below the maximum adds one to
\* failed_attempts; one that reaches max_failed_attempts locks the session for
\* lockout_seconds and empties buffer and failed_attempts; one that accepts
\* leaves failed_attempts at zero and the buffer empty.
C15_AsStated ==
    [][(FeedStep /\ resp'.calls = 1) =>
         IF verify_fn(resp'.code)
         THEN session'.failed_attempts = 0 /\ session'.buffer = <<>>
         ELSE IF session.failed_attempts + 1 < session.policy.max_failed_attempts
         THEN session'.failed_attempts = session.failed_attempts + 1
         ELSE /\ session'.lockout_until = mono + 2 * session.policy.lockout_seconds
              /\ session'.buffer = <<>>
              /\ session'.failed_attempts = 0]_vars

\* C15 amended: the same, with a lockout that lasts lockout_seconds but never
\* less than one second.
C15_Validation ==
    [][(FeedStep /\ resp'.calls = 1) =>
         IF verify_fn(resp'.code)
         THEN session'.failed_attempts = 0 /\ session'.buffer = <<>>
         ELSE IF session.failed_attempts + 1 < session.policy.max_failed_attempts
         THEN session'.failed_attempts = session.failed_attempts + 1
         ELSE /\ session'.lockout_until =
                     mono + (IF session.policy.lockout_seconds >= 1
                             THEN 2 * session.policy.lockout_seconds ELSE 2)
              /\ session'.buffer = <<>>
              /\ session'.failed_attempts = 0]_vars

\* a second rejection in a row has locked a session with a 2 s lockout
C15_Witness ==
    /\ session.policy.max_failed_attempts = 2 /\ session.policy.lockout_seconds = 2
    /\ resp.calls = 1 /\ resp.status = "locked"
    /\ session.lockout_until = mono + 4
    /\ session.failed_attempts = 0 /\ session.buffer = <<>>

\* C16: a one-character key fed more than code_entry_timeout_s after the
\* last stamped key, with digits in the buffer, is handled on an empty buffer:
\* afterwards the buffer holds nothing of the old digits (it is empty or holds
\* the new digit alone), the verifier was not called, and failed_attempts is
\* unchanged.
C16_InterkeyTimeout ==
    [][(/\ FeedStep /\ resp'.key # ""
        /\ session.buffer # <<>>
        /\ mono - session.last_key_ts > 2 * session.policy.code_entry_timeout_s)
       => /\ session'.buffer \in {<<>>, <<resp'.key>>}
          /\ resp'.calls = 0
          /\ session'.failed_attempts = session.failed_attempts]_vars

\* a confirm key came too late for a code that was complete
C16_Witness ==
    /\ resp.expired /\ resp.key = CONFIRM_KEY
    /\ resp.status = "incomplete" /\ session.buffer = <<>>
    /\ session.policy.code_length = 2 /\ audit.digs = 2 /\ audit.pure

\* a digit is fed to a session that is not locked and whose buffer is full
DigitOnFull ==
    /\ FeedStep /\ resp'.key \in KeyDigits
    /\ mono >= session.lockout_until
    /\ Len(session.buffer) >= session.policy.code_length

\* C17 as stated: the buffer never holds more than code_length digits; a digit
\* fed when the buffer is full is answered with collecting and leaves the
\* buffer as it was.
C17_AsStated ==
    [][/\ Len(session'.buffer) <= session'.policy.code_length
       /\ DigitOnFull => (resp'.status = "collecting" /\ session'.buffer = session.buffer)]_vars

\* C17 amended: the same, the buffer being left as it was when the digit comes
\* within code_entry_timeout_s of the last stamped key; a later digit is
\* answered with collecting as well.
C17_BufferBound ==
    [][/\ Len(session'.buffer) <= session'.policy.code_length
       /\ DigitOnFull => resp'.status = "collecting"
       /\ (DigitOnFull
             /\ mono - session.last_key_ts <= 2 * session.policy.code_entry_timeout_s)
          => session'.buffer = session.buffer]_vars

\* a third digit was dropped from a buffer of two
C17_Witness ==
    /\ resp.full /\ ~resp.expired /\ resp.key = "7" /\ resp.status = "collecting"
    /\ session.policy.code_length = 2 /\ session.buffer = <<"1", "1">>

\* an on_sym has returned
SymStep == ksm'.n # ksm.n

\* C18: on_sym("CANCEL"), whatever the state, leaves the controller in IDLE
\* with the code buffer and the machine selection cleared and makes no call of
\* the charge.
C18_Cancel ==
    [][(SymStep /\ ksm'.sym = "CANCEL")
       => /\ ksm'.state = "IDLE" /\ ksm'.buf_code = "" /\ ksm'.sel_machine = NoMachine
          /\ ksm'.charges = 0]_vars

\* a cancel was given at the confirmation of a selected machine
C18_Witness ==
    /\ ksm.sym = "CANCEL" /\ ksm.from = "CONFIRM" /\ ksm.state = "IDLE"
    /\ ksm.buf_code = "" /\ ksm.sel_machine = NoMachine /\ ksm.spoken = "Cancelled."

\* ENTER is given to a controller in CONFIRM
EnterInConfirm == SymStep /\ ksm.state = "CONFIRM" /\ ksm'.sym = "ENTER"

\* C19 as stated: on_sym("ENTER") in CONFIRM calls the charge exactly once and
\* leaves the controller in IDLE with buffer and selection cleared, however
\* the call ends.
C19_AsStated ==
    [][EnterInConfirm
       => /\ ksm'.charges = 1
          /\ ksm'.state = "IDLE" /\ ksm'.buf_code = "" /\ ksm'.sel_machine = NoMachine]_vars

\* C19 amended: the same for an ENTER that comes within the input timeout of
\* the previous symbol; a later ENTER leaves the controller in IDLE as well,
\* without a call of the charge.
C19_ConfirmEnter ==
    [][EnterInConfirm
       => /\ ksm'.state = "IDLE" /\ ksm'.buf_code = "" /\ ksm'.sel_machine = NoMachine
          /\ ksm'.charges =
                 (IF mono - ksm.last_input <= 2 * controller_timeout_s THEN 1 ELSE 0)]_vars

\* the charge was called once, raised, and the controller is idle
C19_Witness ==
    /\ ksm.sym = "ENTER" /\ ksm.from = "CONFIRM" /\ ksm.charges = 1
    /\ ksm.outcome = "exception" /\ ksm.spoken = "Operation failed."
    /\ ksm.state = "IDLE" /\ ksm.buf_code = "" /\ ksm.sel_machine = NoMachine

\* C20 as stated: in pulse mode, while the soft-busy timer of an enabled
\* machine is unexpired, GET /machines reports it on with source timer
\* whatever the input and the sensor read, and no charge request for it passes
\* the availability gate.
C20_AsStated ==
    [][/\ \A mach \in Machines, di \in TriState, ha \in SensorStates :
             (/\ opts.do_mode = "pulse" /\ machine_enabled(mach, opts)
              /\ soft_busy(mach, ACTIVE_UNTIL, now))
             => machines_status(opts, di, ha, TRUE)
                    = [state |-> "on", busy_source |-> "timer"]
       /\ \A r \in Reqs :
             (/\ opts.do_mode = "pulse"
              /\ req[r].pc = "idle" /\ req'[r].pc = "precheck_wait")
             => ~soft_busy(req'[r].machine, ACTIVE_UNTIL, now)]_vars

\* a GET /machines has returned
ListStep == listing'.n # listing.n

\* C21 as stated: in hold mode the listing of an enabled machine is on when
\* its input reads active; off, and its soft timer gone, when the input reads
\* inactive; what the sensor reports when the input is unknown and the sensor
\* says on or off; and with neither, on while the soft timer runs and unknown
\* otherwise.
C21_AsStated ==
    [][(ListStep /\ opts.do_mode = "hold") =>
         \A mid \in Machines :
            machine_enabled(mid, opts) =>
              LET e == listing'.out[mid]
                  d == IF opts.adam THEN listing'.di ELSE "unknown"
                  h == IF opts.token THEN listing'.ha ELSE "unknown"
              IN  /\ d = "active" => e.state = "on"
                  /\ d = "inactive" => (e.state = "off" /\ ACTIVE_UNTIL'[mid] = NoTimer)
                  /\ (d = "unknown" /\ h \in {"on", "off"}) => e.state = h
                  /\ (d = "unknown" /\ h = "unknown")
                     => e.state = (IF soft_busy(mid, ACTIVE_UNTIL, now)
                                   THEN "on" ELSE "unknown")]_vars

\* C22: a request that is not in simulation mode never stands behind an
\* availability check (the gate or the re-check before the activation) that
\* read neither input nor sensor as known; with simulate on disk and neither
\* an ADAM host nor a token, where both are unknown in every check, no
\* request is turned away as busy.
C22_UnknownIsBusy ==
    /\ \A r \in Reqs :
          (req[r].pc \in {"precheck_wait", "operate"} /\ req[r].blind)
          => req[r].simulate
    /\ (opts.simulate /\ ~opts.adam /\ ~opts.token)
       => \A r \in Reqs : req[r].result # "MACHINE_BUSY"

\* outside simulation, without input and sensor, a charge was refused as busy
C22_Witness ==
    /\ ~opts.simulate /\ ~opts.adam /\ ~opts.token
    /\ \E r \in Reqs : req[r].result = "MACHINE_BUSY" /\ req[r].machine = 1

\* in simulation a request is about to be activated on a machine that both
\* the input and the sensor left unknown
SimulatedBlind ==
    /\ opts.simulate /\ opts.adam /\ opts.token
    /\ \E r \in Reqs : req[r].pc = "operate" /\ req[r].blind

\* a source of the options switches the machine off
FlaggedDisabled(mid) ==
    \/ mid \in opts.disabled_machines
    \/ is_false(opts.override[mid])
    \/ is_false(opts.flag[mid])

\* C23: for a machine that a source switches off, GET /machines lists
\* disabled without reading its input or its sensor, whatever they would
\* read; a charge for it ends at the gate with MACHINE_DISABLED; and
\* machine_is_available answers false for it without a read and without
\* touching the soft timer.
C23_DisabledFirst ==
    [][/\ ListStep =>
            \A mid \in Machines :
               FlaggedDisabled(mid)
               => /\ listing'.out[mid].state = "disabled"
                  /\ ~listing'.out[mid].di_read /\ ~listing'.out[mid].ha_read
       /\ \A r \in Reqs :
            (/\ req[r].pc = "idle" /\ req'[r] # req[r]
             /\ req'[r].machine \in Machines /\ FlaggedDisabled(req'[r].machine))
            => (req'[r].result = "MACHINE_DISABLED" /\ ACTIVE_UNTIL' = ACTIVE_UNTIL)
       /\ \A mid \in Machines, di \in TriState, ha \in SensorStates :
            FlaggedDisabled(mid)
            => machine_is_available(mid, opts, di, ha)
                   = [avail |-> FALSE, pop |-> FALSE, io |-> 0]]_vars

\* machine 5 is listed as disabled while input and sensor read busy, and a
\* charge for it was refused
C23_Witness ==
    /\ 5 \in opts.disabled_machines /\ opts.adam /\ opts.token
    /\ listing.n = 1 /\ listing.di = "active" /\ listing.ha = "on"
    /\ listing.out[5].state = "disabled" /\ ~listing.out[5].di_read
    /\ req["keypad"].result = "MACHINE_DISABLED" /\ req["keypad"].machine = 5

\* the precedence the three sources are said to have
EnabledByPrecedence(mid) ==
    IF opts.override[mid] # "absent" THEN ~is_false(opts.override[mid])
    ELSE IF opts.flag[mid] # "absent" THEN ~is_false(opts.flag[mid])
    ELSE mid \notin opts.disabled_machines

\* C24 as stated: a machine is enabled iff the override says so when present,
\* else the per-machine flag when present, else iff it is not in
\* disabled_machines; GET /machines lists a machine as disabled exactly when
\* machine_enabled is false.
C24_AsStated ==
    [][ListStep =>
         \A mid \in Machines :
            /\ machine_enabled(mid, opts) = EnabledByPrecedence(mid)
            /\ (listing'.out[mid].state # "disabled") = EnabledByPrecedence(mid)]_vars

\* the codes of the gates that come before the ledger is read
GateCodes == {"INVALID_INPUT", "MACHINE_DISABLED", "MACHINE_BUSY", "PRICE_NOT_DEFINED"}

\* C25: what a step of a charge that speaks leaves behind is fixed by the
\* request and the ledger, whether the TTS call of the step succeeds or
\* fails: a request turned away at the gates ends with the code of its gate
\* and an untouched ledger; one with too little money at the pre-check or at
\* the commit ends with INSUFFICIENT_FUNDS and its failure row; one that finds
\* the machine busy under the lock ends with MACHINE_BUSY; an accepted one
\* ends with CHARGE_OK and its debit in the ledger.
C25_SpeechNeutral ==
    [][\A r \in Reqs :
          /\ (req[r].pc = "idle" /\ req'[r].pc = "done")
             => /\ req'[r].result \in GateCodes
                /\ transactions' = transactions /\ accounts' = accounts
          /\ (/\ PrecheckRuns(r) /\ req[r].tenant \in DOMAIN accounts
              /\ read_float(accounts[req[r].tenant]) < req[r].p)
             => /\ req'[r].result = "INSUFFICIENT_FUNDS"
                /\ Appends(r) /\ ~NewRow.success /\ accounts' = accounts
          /\ (/\ req[r].pc = "machine_wait" /\ lock_free(machineLock[req[r].machine])
              /\ req'[r].pc = "done")
             => /\ req'[r].result = "MACHINE_BUSY"
                /\ transactions' = transactions /\ accounts' = accounts
          /\ (/\ CommitRuns(r) /\ req[r].tenant \in DOMAIN accounts
              /\ read_float(accounts[req[r].tenant]) < req[r].p)
             => /\ req'[r].result = "INSUFFICIENT_FUNDS"
                /\ Appends(r) /\ ~NewRow.success /\ accounts' = accounts
                /\ ACTIVE_UNTIL'[req[r].machine] = NoTimer
                /\ machineLock'[req[r].machine] = Free
          /\ Accepted(r)
             => /\ req'[r].result = "CHARGE_OK"
                /\ accounts'[req[r].tenant] = RowOf(r).balance_after
                /\ transactions' = transactions]_vars

\* a request whose TTS call failed ended with INSUFFICIENT_FUNDS and its row
C25_Witness ==
    \E r \in Reqs :
        /\ req[r].tts = "failed" /\ req[r].result = "INSUFFICIENT_FUNDS"
        /\ RowsBy(r) # {} /\ ~RowOf(r).success

\* a request whose TTS call failed was accepted
SpokenAccepted ==
    \E r \in Reqs : req[r].tts = "failed" /\ req[r].result = "CHARGE_OK"

\* how far a request has come: the gates, the pre-check, the machine lock
\* and the re-check, the activation, the commit
Stage(pc) ==
    CASE pc = "idle" -> 0
      [] pc = "precheck_wait" -> 1
      [] pc = "machine_wait" -> 2
      [] pc = "operate" -> 3
      [] pc \in {"failtx_wait", "commit_wait"} -> 4
      [] pc = "commit_write" -> 5
      [] OTHER -> 6

\* the codes a request can leave with from each stage (TimeoutError is the
\* exception of a lock that was not granted)
StageCodes(pc) ==
    CASE pc = "idle" -> GateCodes
      [] pc = "precheck_wait" -> {"TENANT_NOT_FOUND", "INSUFFICIENT_FUNDS", "TimeoutError"}
      [] pc = "machine_wait" -> {"MACHINE_BUSY", "TimeoutError"}
      [] pc = "failtx_wait" -> {"ACTIVATION_FAILED", "TimeoutError"}
      [] pc = "commit_wait" -> {"TENANT_NOT_FOUND", "INSUFFICIENT_FUNDS", "TimeoutError"}
      [] pc = "commit_write" -> {"CHARGE_OK"}
      [] OTHER -> {}

\* C26: a request goes through its stages in the fixed order and never back;
\* it leaves a stage with a code of that stage only; it passes the gates only
\* with valid input, an enabled machine and a price above zero, the pre-check
\* only with a known tenant who has the price, the activation only when it
\* succeeded or is simulated; a disabled machine gives MACHINE_DISABLED
\* whoever the tenant is; an unknown tenant gives TENANT_NOT_FOUND at the
\* pre-check, while the request holds no machine lock and has written no
\* output.
C26_GateOrder ==
    [][\A r \in Reqs : req'[r] # req[r] =>
          /\ Stage(req'[r].pc) > Stage(req[r].pc)
          /\ req'[r].pc = "done" => req'[r].result \in StageCodes(req[r].pc)
          /\ (req'[r].pc # "done" /\ req[r].pc # "operate")
             => Stage(req'[r].pc) = Stage(req[r].pc) + 1
          /\ (req[r].pc = "idle" /\ req'[r].machine \in Machines
                /\ ~machine_enabled(req'[r].machine, opts))
             => req'[r].result = "MACHINE_DISABLED"
          /\ req'[r].pc = "precheck_wait"
             => /\ req'[r].tenant # NoTenant /\ req'[r].machine \in Machines
                /\ machine_enabled(req'[r].machine, opts) /\ req'[r].p > 0
          /\ (PrecheckRuns(r) /\ req[r].tenant \notin DOMAIN accounts)
             => /\ req'[r].result = "TENANT_NOT_FOUND"
                /\ \A x \in Machines : machineLock[x] # r /\ machineLock'[x] # r
                /\ ~req'[r].operated /\ coil' = coil /\ switch' = switch
                /\ transactions' = transactions
          /\ req'[r].pc = "machine_wait"
             => /\ req[r].tenant \in DOMAIN accounts
                /\ read_float(accounts[req[r].tenant]) >= req[r].p
          /\ req'[r].pc = "operate" => machineLock'[req[r].machine] = r
          /\ req'[r].pc = "commit_wait" => (req'[r].ok \/ req'[r].simulate)
          /\ req'[r].pc = "failtx_wait" => ~(req'[r].ok \/ req'[r].simulate)]_vars

\* a charge of a tenant without an account for the disabled machine 5 was
\* refused with MACHINE_DISABLED
C26_Witness ==
    \E r \in Reqs :
        /\ req[r].result = "MACHINE_DISABLED" /\ req[r].machine = 5
        /\ req[r].tenant \notin DOMAIN accounts /\ req[r].tenant # NoTenant

\* the rows of a tenant
RowsOf(t) == {i \in DOMAIN transactions : transactions[i].tenant_code = t}

\* C27 as stated: in every state, a successful row that is the last row of its
\* tenant has its debit in the ledger: the stored balance of the tenant is
\* the balance_after of the row.
C27_AsStated ==
    \A t \in DOMAIN accounts :
        RowsOf(t) # {} =>
           LET last == CHOOSE i \in RowsOf(t) : \A j \in RowsOf(t) : j <= i IN
           transactions[last].success
              => accounts[t] = transactions[last].balance_after

\* C28 as stated: when a request that armed the soft-busy timer of its
\* machine ends in a failure, and every other request that armed a timer is
\* still running on another machine, the machine has no soft-busy entry
\* afterwards.
C28_AsStated ==
    [][\A r \in Reqs :
          (/\ req[r].pc \notin {"idle", "done"} /\ req'[r].pc = "done"
           /\ req'[r].result # "CHARGE_OK"
           /\ req[r].armed
           /\ \A x \in Reqs \ {r} :
                 req[x].armed => req[x].machine \notin {req[r].machine, NoMachine})
          => ACTIVE_UNTIL'[req[r].machine] = NoTimer]_vars

\* C29 as stated: the step of a charge that drives the output schedules an
\* auto-release only in hold mode through the Home Assistant switch, outside
\* simulation and with a duration above zero, and never more than one.
C29_AsStated ==
    [][\A r \in Reqs :
          (req[r].pc = "operate" /\ req'[r].pc # "operate")
          => LET o == request_opts(r) IN
             /\ req'[r].timers <= 1
             /\ req'[r].timers > 0
                   => /\ o.do_mode = "hold" /\ ~o.adam /\ ~o.simulate
                      /\ req[r].m > 0]_vars

\* a charge that scheduled two auto-releases: the timer of operate_machine
\* (line 697) and the timer of _handle_charge (line 782)
DoubleRelease == \E r \in Reqs : req[r].timers = 2

\* the requests that ended in a failure
Failed == {r \in Reqs : req[r].pc = "done" /\ req[r].result # "CHARGE_OK"}

\* C30: every row of a request that ended in a failure has amount_charged 0,
\* balance_after equal to balance_before and success = false, and no request
\* has more than one row.
C30_FailureRows ==
    /\ \A r \in Reqs : Cardinality(RowsBy(r)) <= 1
    /\ \A r \in Failed :
          \A i \in RowsBy(r) :
             /\ transactions[i].amount_charged = 0
             /\ transactions[i].balance_after = transactions[i].balance_before
             /\ ~transactions[i].success

\* an activation failed after the pre-check had passed, and the request left
\* its row
C30_Witness ==
    \E r \in Failed :
        /\ req[r].result = "ACTIVATION_FAILED"
        /\ req[r].operated
        /\ RowsBy(r) # {}

\* the last call was a pulse of the hardware: Adam6050.pulse_relay of an
\* enabled object, or _adam_pulse
PulseCalled ==
    \/ call.op = "pulse_relay" /\ adam.enabled
    \/ call.op = "_adam_pulse"

\* in one attempt of the pulse both writes got through
BothWritesOk ==
    IF call.op = "pulse_relay" THEN \E k \in DOMAIN call.outs : call.outs[k] = "ok"
    ELSE call.outs = <<"ok", "ok">>

\* C31 as stated: a pulse of the hardware reports success if and only if in
\* one of its attempts the ON write and the OFF write both got through.
C31_AsStated == PulseCalled => (call.ok <=> BothWritesOk)

\* the object does real I/O: it is enabled and pymodbus is there
RealMode == adam.enabled /\ HAS_PYMODBUS

\* the attempt got through: the write was taken, the input was read
AttemptOk(op, out) ==
    IF op \in {"is_machine_active", "_adam_read_di"} THEN out \in {"raw_on", "raw_off"}
    ELSE out = "ok"

\* C32: a write, a pulse or an input read of an Adam6050 in real mode makes at
\* least one and at most retries attempts, each on a session of its own; an
\* attempt that meets a connect failure, an error reply or an exception fails
\* and the next one is made; the first attempt that gets through ends the
\* call with its result, and when the last attempt has failed the call ends
\* with its failure value (False).
C32_BoundedRetries ==
    (call.op \in {"set_on", "set_off", "pulse_relay", "is_machine_active"} /\ RealMode)
    => /\ call.attempts \in 1 .. adam.retries
       /\ call.sessions = call.attempts
       /\ \A k \in 1 .. call.attempts - 1 : ~AttemptOk(call.op, call.outs[k])
       /\ LET last == call.outs[call.attempts] IN
          IF AttemptOk(call.op, last)
          THEN IF call.op = "is_machine_active"
               THEN call.state = active_of(inverted(last = "raw_on", call.inv))
               ELSE call.ok
          ELSE /\ call.attempts = adam.retries
               /\ IF call.op = "is_machine_active" THEN call.state = active_of(FALSE)
                  ELSE ~call.ok

\* a write got through at its second attempt, after a failed first one
C32_Witness ==
    /\ RealMode /\ adam.retries = 2
    /\ call.op = "set_on" /\ call.ok /\ call.attempts = 2 /\ call.sessions = 2
    /\ call.outs[1] = "connect_failed"

\* a pulse and a read gave up after the last attempt
RetriesExhausted ==
    /\ RealMode /\ adam.retries = 2
    /\ call.op \in {"pulse_relay", "is_machine_active"}
    /\ call.attempts = 2 /\ ~AttemptOk(call.op, call.outs[2])

\* C33 as stated: an input read whose every attempt failed reports unknown,
\* never active or inactive.
C33_AsStated ==
    (/\ call.op \in {"is_machine_active", "_adam_read_di"}
     /\ call.attempts >= 1
     /\ \A k \in DOMAIN call.outs : ~AttemptOk(call.op, call.outs[k]))
    => call.state = "unknown"

\* a step that is a pulse of the hardware
PulseStep ==
    /\ call'.n # call.n
    /\ \/ call'.op = "pulse_relay" /\ RealMode
       \/ call'.op = "_adam_pulse"

\* C40 as stated: when a pulse that started with the coil off returns, with
\* success or with failure, the coil is off.
C40_AsStated ==
    [][(PulseStep /\ ~coil[AdamMachine]) => ~coil'[AdamMachine]]_vars

\* a symbol is given to a controller in state st
SymIn(st) == SymStep /\ ksm.state = st

\* the symbol comes within the input timeout of the previous one
InTime == mono - ksm.last_input <= 2 * controller_timeout_s

\* C34 as stated: SELECT_MACHINE is entered only from ENTER_CODE, on ENTER
\* with six digits buffered that are the code of an account; ENTER with fewer
\* than six digits keeps state and buffer; ENTER with six digits of no
\* account leaves the controller in IDLE.
C34_AsStated ==
    [][/\ (SymStep /\ ksm.state # "SELECT_MACHINE" /\ ksm'.state = "SELECT_MACHINE")
          => /\ ksm.state = "ENTER_CODE" /\ ksm'.sym = "ENTER"
             /\ Len(ksm.buf_code) = CODE_DIGITS
             /\ ksm.buf_code \in DOMAIN accounts
             /\ ksm'.buf_code = ksm.buf_code
       /\ (SymIn("ENTER_CODE") /\ ksm'.sym = "ENTER")
          => IF Len(ksm.buf_code) < CODE_DIGITS
             THEN ksm'.state = "ENTER_CODE" /\ ksm'.buf_code = ksm.buf_code
             ELSE ksm.buf_code \notin DOMAIN accounts
                     => ksm'.state = "IDLE" /\ ksm'.buf_code = ""]_vars

\* C34 amended: the same, where the ENTER with fewer than six digits keeps
\* state and buffer if it comes within the input timeout of the previous
\* symbol; a later ENTER, whatever is buffered, leaves the controller in IDLE
\* with the buffer cleared.
C34_EnterCode ==
    [][/\ (SymStep /\ ksm.state # "SELECT_MACHINE" /\ ksm'.state = "SELECT_MACHINE")
          => /\ ksm.state = "ENTER_CODE" /\ ksm'.sym = "ENTER" /\ InTime
             /\ Len(ksm.buf_code) = CODE_DIGITS
             /\ ksm.buf_code \in DOMAIN accounts
             /\ ksm'.buf_code = ksm.buf_code
       /\ (SymIn("ENTER_CODE") /\ ksm'.sym = "ENTER")
          => IF ~InTime THEN ksm'.state = "IDLE" /\ ksm'.buf_code = ""
             ELSE IF Len(ksm.buf_code) < CODE_DIGITS
             THEN ksm'.state = "ENTER_CODE" /\ ksm'.buf_code = ksm.buf_code
             ELSE IF ksm.buf_code \in DOMAIN accounts
             THEN ksm'.state = "SELECT_MACHINE"
             ELSE ksm'.state = "IDLE" /\ ksm'.buf_code = ""]_vars

\* six digits that are no code were entered and ENTER sent the controller
\* back to IDLE
C34_Witness ==
    /\ ksm.sym = "ENTER" /\ ksm.from = "ENTER_CODE" /\ ksm.state = "IDLE"
    /\ ksm.spoken = "Invalid code."

\* the code of an account was entered and accepted
CodeAccepted ==
    /\ ksm.sym = "ENTER" /\ ksm.from = "ENTER_CODE" /\ ksm.state = "SELECT_MACHINE"
    /\ ksm.buf_code = "111111"

\* the symbol is a digit that names a machine
MachineDigit(sym) == sym \in KeyDigits /\ int_of(sym) \in 1 .. 6

\* the call of the charge is made from CONFIRM on ENTER, with a buffered code
\* of six digits that is the code of an account and a selected machine
\* between 1 and 6
ChargeCalledFromConfirm ==
    (SymStep /\ ksm'.charges = 1)
    => /\ ksm.state = "CONFIRM" /\ ksm'.sym = "ENTER"
       /\ ksm.sel_machine \in 1 .. 6
       /\ Len(ksm.buf_code) = CODE_DIGITS
       /\ ksm.buf_code \in DOMAIN accounts

\* C35 as stated: the charge is called only from CONFIRM on ENTER, with a
\* machine between 1 and 6 and the six-digit code of an account; in
\* SELECT_MACHINE a digit outside 1..6 and every symbol that is no digit leave
\* the state unchanged.
C35_AsStated ==
    [][/\ ChargeCalledFromConfirm
       /\ (SymIn("SELECT_MACHINE") /\ ~MachineDigit(ksm'.sym))
          => ksm'.state = "SELECT_MACHINE"]_vars

\* C35 amended: the second part holds for a symbol other than CANCEL that
\* comes within the input timeout: it leaves state, code and selection as
\* they are, and a digit from 1 to 6 selects the machine and enters CONFIRM;
\* CANCEL and a symbol after the timeout leave the controller in IDLE or, for
\* a late digit, start a new code.
C35_SelectAndCharge ==
    [][/\ ChargeCalledFromConfirm
       /\ (SymIn("SELECT_MACHINE") /\ InTime /\ ksm'.sym # "CANCEL")
          => IF MachineDigit(ksm'.sym)
             THEN /\ ksm'.state = "CONFIRM" /\ ksm'.sel_machine = int_of(ksm'.sym)
                  /\ ksm'.buf_code = ksm.buf_code
             ELSE /\ ksm'.state = "SELECT_MACHINE" /\ ksm'.buf_code = ksm.buf_code
                  /\ ksm'.sel_machine = ksm.sel_machine
       /\ (SymIn("SELECT_MACHINE") /\ (~InTime \/ ksm'.sym = "CANCEL"))
          => /\ ksm'.state = (IF ksm'.sym \in KeyDigits THEN "ENTER_CODE" ELSE "IDLE")
             /\ ksm'.sel_machine = NoMachine]_vars

\* the charge was called from CONFIRM and returned
C35_Witness ==
    /\ ksm.charges = 1 /\ ksm.sym = "ENTER" /\ ksm.from = "CONFIRM"
    /\ ksm.outcome = "return"

\* the digit 7 was given in SELECT_MACHINE and changed nothing
DigitOutOfRange ==
    /\ ksm.sym = "7" /\ ksm.from = "SELECT_MACHINE" /\ ksm.state = "SELECT_MACHINE"
    /\ ksm.sel_machine = NoMachine

\* C36: a symbol that comes more than the timeout after the previous one
\* while the controller is not in IDLE makes no call of the charge and is
\* handled as a first symbol in IDLE: the code and the selection are gone, a
\* digit starts a new code with that digit, any other symbol leaves the
\* controller in IDLE; the time of the symbol is taken as the last input.
C36_TimeoutReset ==
    [][(SymStep /\ ~InTime /\ ksm.state # "IDLE")
       => /\ ksm'.charges = 0
          /\ ksm'.sel_machine = NoMachine
          /\ ksm'.last_input = mono
          /\ IF ksm'.sym \in KeyDigits
             THEN ksm'.state = "ENTER_CODE" /\ ksm'.buf_code = ksm'.sym
             ELSE ksm'.state = "IDLE" /\ ksm'.buf_code = ""]_vars

\* an ENTER came too late to confirm the selected machine
C36_Witness ==
    /\ ksm.sym = "ENTER" /\ ksm.from = "CONFIRM" /\ ksm.charges = 0
    /\ ksm.state = "IDLE" /\ ksm.spoken = "Timeout."

\* a digit came too late for the code it was meant for and started a new one
LateDigit ==
    /\ ksm.sym = "1" /\ ksm.from = "ENTER_CODE" /\ ksm.state = "ENTER_CODE"
    /\ ksm.buf_code = "1"

\* a reset that changed the session: no key was fed, no time passed
ResetStep == resp' = resp /\ mono' = mono /\ session' # session

\* C37: no call lowers lockout_until; a reset clears the buffer and the
\* failed attempts and leaves lockout_until and with it the lockout as they
\* are.
C37_LockoutMonotone ==
    [][/\ session'.lockout_until >= session.lockout_until
       /\ ResetStep
          => /\ session'.buffer = <<>> /\ session'.failed_attempts = 0
             /\ session'.lockout_until = session.lockout_until
             /\ is_locked(session', mono') = is_locked(session, mono)]_vars

\* reset was called while the session was locked, and it is still locked
C37_Witness ==
    /\ audit.reset_locked
    /\ is_locked(session, mono) /\ session.lockout_until > 0
    /\ session.buffer = <<>> /\ session.failed_attempts = 0

\* a second lockout began later than the first one ended
SecondLockout ==
    /\ is_locked(session, mono)
    /\ session.lockout_until > 2 + 2 * session.policy.lockout_seconds

\* the sum of amount_charged over the successful rows of tenant t among the
\* first n rows
RECURSIVE ChargedUpTo(_, _)
ChargedUpTo(t, n) ==
    IF n = 0 THEN 0
    ELSE ChargedUpTo(t, n - 1)
         + (IF transactions[n].tenant_code = t /\ transactions[n].success
            THEN transactions[n].amount_charged ELSE 0)

Charged(t) == ChargedUpTo(t, Len(transactions))

\* a commit of tenant t has appended its row and not yet written the balance
Committing(t) == \E r \in Reqs : req[r].pc = "commit_write" /\ req[r].tenant = t

TwoCommitted ==
    \E r1, r2 \in Reqs :
        /\ r1 # r2 /\ req[r1].result = "CHARGE_OK" /\ req[r2].result = "CHARGE_OK"
        /\ RowsBy(r1) # {} /\ RowsBy(r2) # {}
        /\ RowOf(r1).tenant_code = "111111" /\ RowOf(r2).tenant_code = "111111"
        /\ RowOf(r1).success /\ RowOf(r2).success
        /\ Charged("111111") > 500 /\ accounts["111111"] < 300

\* request r is inside a "with file_lock(GLOBAL_LOCK)" block
HoldsGlobal(r) == globalLock = r

\* request r is inside a "with file_lock(_machine_lock_path(machine))" block
HoldsMachine(r) == \E x \in Machines : machineLock[x] = r

\* a request that is not inside _handle_charge holds no lock
LocksReleased ==
    \A r \in Reqs : req[r].pc \in {"idle", "done"} => ~HoldsGlobal(r) /\ ~HoldsMachine(r)

\* whoever waits for a machine lock holds no lock at all, whoever waits for
\* the ledger lock holds at most its machine lock, and the holder of the
\* ledger lock waits for nothing
LockOrder ==
    /\ \A r \in Reqs :
          /\ req[r].pc = "machine_wait" => ~HoldsGlobal(r) /\ ~HoldsMachine(r)
          /\ req[r].pc \in {"precheck_wait", "failtx_wait", "commit_wait"} => ~HoldsGlobal(r)
          /\ req[r].pc = "precheck_wait" => ~HoldsMachine(r)
          /\ HoldsGlobal(r) => req[r].pc = "commit_write"
    /\ globalLock = "upsert" <=> upsert.pc = "locked"

\* every request in flight, and an upsert that holds the ledger lock, has a
\* step it can take
NoDeadlock ==
    /\ \A r \in InFlight : ENABLED charge_step(r)
    /\ upsert.pc = "locked" =>
           ENABLED (accounts_upsert_write /\ UNCHANGED <<keypadVars, statusVars, deviceVars>>)

\* request r has left _handle_charge with a result and holds no lock
Terminated(r) ==
    /\ req[r].pc = "done" /\ req[r].result # ""
    /\ ~HoldsGlobal(r) /\ ~HoldsMachine(r)

\* C39: a request that has entered the charge flow leaves it, with a result
\* and holding no lock, whatever the other charge and the account upserts do;
\* at no time does a finished request hold a lock, at no time does a request
\* wait for a machine lock while it holds the ledger lock (the ledger lock is
\* taken under the machine lock or alone), and at no time is a request in
\* flight without a step it can take.
C39_TerminatesAndReleases ==
    /\ [](LocksReleased /\ LockOrder /\ NoDeadlock)
    /\ \A r \in Reqs : (req[r].pc \notin {"idle", "done"}) ~> Terminated(r)

\* a request that held its machine lock gave up on the ledger lock, which an
\* upsert holds, and left without a lock; the other request is in flight
C39_Witness ==
    \E r1, r2 \in Reqs :
        /\ r1 # r2
        /\ req[r1].pc = "done" /\ req[r1].result = "TimeoutError" /\ req[r1].operated
        /\ ~HoldsMachine(r1)
        /\ upsert.pc = "locked" /\ globalLock = "upsert"
        /\ req[r2].pc \in {"precheck_wait", "commit_wait"}

\* one request is in its commit under both locks while the other waits for
\* the same machine lock
MachineLockContended ==
    \E r1, r2 \in Reqs :
        /\ req[r1].pc = "commit_write" /\ HoldsGlobal(r1)
        /\ req[r2].pc = "machine_wait" /\ machineLock[req[r2].machine] = r1

====
